---- MODULE Spec2Model ----
\* The augmented multi-value B+ tree of include/BPlusTree4.h and the two hybrid
\* indexes built on it (include/vectorIndex.h, include/probabilisticVectorIndex.h).
\*
\* Nodes live in a heap indexed by node ids (the C++ node pointers); 0 is the null
\* pointer.  Keys are fixed-point numbers: the integer k stands for the key
\* k / Scale, so that the float keys of the indexes can be non-integer.  Storage
\* that was deleted and is still pointed at is kept in `released`; its content is
\* indeterminate, which the model renders as a choice between the old bytes still
\* being there and the storage having been overwritten (`scribbled`).
EXTENDS Integers, Sequences, FiniteSets, TLC

VARIABLES
    order,      \* BPlusTree::order
    root,       \* BPlusTree::root
    heap,       \* the nodes, by node id
    live,       \* node ids allocated and not deleted
    released,   \* node ids deleted while the tree still points at them
    scribbled,  \* released node ids whose storage has been overwritten
    dfree,      \* TRUE once some node was deleted a second time
    status,     \* "ok", "crashed" once the process has faulted, "destroyed"
    ref,        \* the reference multimap the tests compare with: key -> ids
    workload,   \* the keys and values the caller draws its arguments from
    dataVectors,\* VectorIndex::dataVectors (record id i is element i + 1)
    sValues,    \* VectorIndex::sValues
    dimension,  \* VectorIndex::dimension
    hnswIndex,  \* the ANN oracle: whether it exists, its labels, its ef
    kind,       \* which index class the object is, "none" for a bare tree
    ret,        \* how the last index insert returned
    q,          \* the last index query: its arguments, its steps, its result
    chooser,    \* one call of a candidate-size chooser: arguments, steps, result
    maxElements,\* the capacity the ANN oracle is created with
    op          \* the insert or remove under way, where its loops are followed

treeVars == <<order, root, heap, live, released, scribbled, dfree, status>>

indexVars == <<dataVectors, sValues, dimension, hnswIndex, kind, ret, q,
              maxElements>>

\* The state of the stand-alone calls, which no tree or index operation touches.
sideVars == <<chooser, op>>

\* No insert or remove is under way.
Idle ==
    [pc |-> "idle", key |-> 0, node |-> 0, child |-> 0, todo |-> <<>>,
     expect |-> <<>>]

vars == <<order, root, heap, live, released, scribbled, dfree, status, ref,
          workload, dataVectors, sValues, dimension, hnswIndex, kind, ret, q,
          chooser, maxElements, op>>

\* ---------------------------------------------------------------- bounds
MinOrder == 3
MaxOrder == 4
MaxKey == 5
FewKeys == 3
MaxVal == 2
MaxIds == 2
MaxPairs == 6
MaxNodes == 7
MaxRecords == 3
MaxCoord == 1
MinScalar == 3
MinBound == 4
MaxK == 2
\* A request for more neighbours than the safety margin covers.
LargeK == 60
\* The largest record count handed to a candidate-size chooser called alone.
MaxM == 7
MinO == 2
MaxO == 3

\* The fixed-point resolution of a key: 1.0 is Scale units.
Scale == 2

NULL == 0
NodeIds == 1..MaxNodes
Keys == 1..MaxKey
Vals == 1..MaxVal
Orders == MinOrder..MaxOrder
\* The orders a caller may hand to the constructor, the refused ones included.
CtorOrders == 0..MaxOrder
Coords == 0..MaxCoord
Vecs == {<<>>, <<0, 0>>} \cup {<<c>> : c \in Coords}
QueryVecs == {<<0>>, <<0, 0>>}
Scalars == MinScalar..MaxKey
QueryBounds == MinBound..MaxKey
Ks == ((0 - 1)..MaxK) \cup {LargeK}
Os == MinO..MaxO

\* ------------------------------------------------------- sequence helpers
InsertAt(s, i, e) == SubSeq(s, 1, i - 1) \o <<e>> \o SubSeq(s, i, Len(s))

RemoveAt(s, i) == SubSeq(s, 1, i - 1) \o SubSeq(s, i + 1, Len(s))

Front(s) == SubSeq(s, 1, Len(s) - 1)

RECURSIVE SumLens(_)
SumLens(vs) == IF vs = <<>> THEN 0 ELSE Len(Head(vs)) + SumLens(Tail(vs))

RECURSIVE Flatten(_)
Flatten(vs) == IF vs = <<>> THEN <<>> ELSE Head(vs) \o Flatten(Tail(vs))

SetMin(S) == CHOOSE x \in S : \A y \in S : x <= y

\* std::lower_bound / std::upper_bound on an ascending range, as 0-based
\* offsets from begin().
LowerBound(keys, x) == Cardinality({i \in DOMAIN keys : keys[i] < x})

UpperBound(keys, x) == Cardinality({i \in DOMAIN keys : keys[i] <= x})

\* ------------------------------------------------------------------ nodes
\* Node::Node(bool leaf)
NewNodeRec(leaf) ==
    [isLeaf |-> leaf, keys |-> <<>>, children |-> <<>>, values |-> <<>>,
     next |-> NULL, subtree_size |-> 0]

\* The tree as one value: what the member functions read and write.
Tree ==
    [root |-> root, heap |-> heap, live |-> live, released |-> released,
     dfree |-> dfree]

RECURSIVE Reach(_, _)
Reach(h, n) ==
    IF n = NULL THEN {}
    ELSE IF h[n].isLeaf THEN {n}
    ELSE {n} \cup UNION {Reach(h, h[n].children[i]) : i \in DOMAIN h[n].children}

\* operator new: some storage that is not in use.  Storage that was released
\* and is still pointed at from the tree is not handed out again here; that
\* outcome is covered by `scribbled`.
FreeIds(t) ==
    NodeIds \ (t.live \cup (IF t.released = {} THEN {}
                            ELSE t.released \cap Reach(t.heap, t.root)))

NewNode(t) == SetMin(FreeIds(t))

Allocate(t, n, leaf) ==
    [t EXCEPT !.heap = [@ EXCEPT ![n] = NewNodeRec(leaf)],
              !.live = @ \cup {n},
              !.released = @ \ {n}]

\* Node::~Node and operator delete: an internal node deletes its children.
RECURSIVE Subtree(_, _)
Subtree(h, n) ==
    IF h[n].isLeaf THEN {n}
    ELSE {n} \cup UNION {Subtree(h, h[n].children[i]) : i \in DOMAIN h[n].children}

DeleteNode(t, n) ==
    LET gone == Subtree(t.heap, n)
    IN  [t EXCEPT !.live = @ \ gone, !.released = @ \cup gone,
                  !.dfree = @ \/ (gone \cap t.released # {})]

\* ------------------------------------------------------ subtree_size upkeep
RECURSIVE SumSizes(_, _)
SumSizes(h, cs) ==
    IF cs = <<>> THEN 0 ELSE h[Head(cs)].subtree_size + SumSizes(h, Tail(cs))

\* updateSubtreeSize counting a leaf's keys instead of its ids.
updateSubtreeSizeByKeys(h, n) ==
    IF n = NULL THEN h
    ELSE IF h[n].isLeaf
         THEN [h EXCEPT ![n].subtree_size = Len(h[n].keys)]
         ELSE [h EXCEPT ![n].subtree_size = SumSizes(h, h[n].children)]

updateSubtreeSize(h, n) ==
    IF n = NULL THEN h
    ELSE IF h[n].isLeaf
         THEN [h EXCEPT ![n].subtree_size = SumLens(h[n].values)]
         ELSE [h EXCEPT ![n].subtree_size = SumSizes(h, h[n].children)]

RECURSIVE findParent(_, _, _)
RECURSIVE findParentFrom(_, _, _, _)
findParent(h, current, child) ==
    IF current = NULL \/ h[current].isLeaf THEN NULL
    ELSE findParentFrom(h, current, child, 1)

findParentFrom(h, current, child, i) ==
    IF i > Len(h[current].children) THEN NULL
    ELSE IF h[current].children[i] = child THEN current
    ELSE LET parent == findParent(h, h[current].children[i], child)
         IN  IF parent # NULL THEN parent
             ELSE findParentFrom(h, current, child, i + 1)

RECURSIVE updateSubtreeSizesUpwards(_, _, _)
updateSubtreeSizesUpwards(h, rt, node) ==
    IF node = NULL THEN h
    ELSE LET h1 == updateSubtreeSize(h, node)
         IN  updateSubtreeSizesUpwards(h1, rt, findParent(h1, rt, node))

UpdateUp(t, node) ==
    [t EXCEPT !.heap = updateSubtreeSizesUpwards(t.heap, t.root, node)]

\* ---------------------------------------------------------------- descent
\* The loop `while (!leaf->isLeaf) leaf = leaf->children[upper_bound(key)]`,
\* returning every node it visits, root first.
RECURSIVE PathFrom(_, _, _)
PathFrom(h, n, key) ==
    IF h[n].isLeaf THEN <<n>>
    ELSE <<n>> \o PathFrom(h, h[n].children[UpperBound(h[n].keys, key) + 1], key)

FindLeaf(h, rt, key) == LET p == PathFrom(h, rt, key) IN p[Len(p)]

\* ------------------------------------------------------------------ insert
RECURSIVE insertInternal(_, _, _, _)
RECURSIVE splitInternal(_, _)

\* splitInternal cutting at ceil(keys.size() / 2).
splitInternalHighMid(t, internal) ==
    LET nd == t.heap[internal]
        mid == (Len(nd.keys) + 1) \div 2
        newInternal == NewNode(t)
        t1 == Allocate(t, newInternal, FALSE)
        upKey == nd.keys[mid + 1]
        h2 == [t1.heap EXCEPT
                 ![newInternal].keys = SubSeq(nd.keys, mid + 2, Len(nd.keys)),
                 ![newInternal].children =
                     SubSeq(nd.children, mid + 2, Len(nd.children)),
                 ![internal].keys = SubSeq(nd.keys, 1, mid),
                 ![internal].children = SubSeq(nd.children, 1, mid + 1)]
        h3 == updateSubtreeSize(updateSubtreeSize(h2, internal), newInternal)
        t3 == [t1 EXCEPT !.heap = h3]
    IN  IF internal = t.root
        THEN LET newRoot == NewNode(t3)
                 t4 == Allocate(t3, newRoot, FALSE)
                 h5 == [t4.heap EXCEPT
                          ![newRoot].keys = <<upKey>>,
                          ![newRoot].children = <<internal, newInternal>>]
                 t5 == [t4 EXCEPT !.heap = updateSubtreeSize(h5, newRoot),
                                  !.root = newRoot]
             IN  UpdateUp(t5, newRoot)
        ELSE insertInternal(t3, upKey, findParent(t3.heap, t3.root, internal),
                            newInternal)

splitInternal(t, internal) ==
    LET nd == t.heap[internal]
        mid == Len(nd.keys) \div 2
        newInternal == NewNode(t)
        t1 == Allocate(t, newInternal, FALSE)
        upKey == nd.keys[mid + 1]
        h2 == [t1.heap EXCEPT
                 ![newInternal].keys = SubSeq(nd.keys, mid + 2, Len(nd.keys)),
                 ![newInternal].children =
                     SubSeq(nd.children, mid + 2, Len(nd.children)),
                 ![internal].keys = SubSeq(nd.keys, 1, mid),
                 ![internal].children = SubSeq(nd.children, 1, mid + 1)]
        h3 == updateSubtreeSize(updateSubtreeSize(h2, internal), newInternal)
        t3 == [t1 EXCEPT !.heap = h3]
    IN  IF internal = t.root
        THEN LET newRoot == NewNode(t3)
                 t4 == Allocate(t3, newRoot, FALSE)
                 h5 == [t4.heap EXCEPT
                          ![newRoot].keys = <<upKey>>,
                          ![newRoot].children = <<internal, newInternal>>]
                 t5 == [t4 EXCEPT !.heap = updateSubtreeSize(h5, newRoot),
                                  !.root = newRoot]
             IN  UpdateUp(t5, newRoot)
        ELSE insertInternal(t3, upKey, findParent(t3.heap, t3.root, internal),
                            newInternal)

insertInternal(t, key, current, child) ==
    LET nd == t.heap[current]
        index == UpperBound(nd.keys, key)
        h1 == [t.heap EXCEPT
                 ![current].keys = InsertAt(nd.keys, index + 1, key),
                 ![current].children = InsertAt(nd.children, index + 2, child)]
        t1 == [t EXCEPT !.heap = h1]
    IN  IF Len(h1[current].keys) >= order
        THEN splitInternal(t1, current)
        ELSE UpdateUp(t1, current)

\* splitLeaf cutting at floor(order / 2).
splitLeafLowMid(t, leaf) ==
    LET mid == order \div 2
        newLeaf == NewNode(t)
        t1 == Allocate(t, newLeaf, TRUE)
        nd == t.heap[leaf]
        h2 == [t1.heap EXCEPT
                 ![newLeaf].next = nd.next,
                 ![leaf].next = newLeaf,
                 ![newLeaf].keys = SubSeq(nd.keys, mid + 1, Len(nd.keys)),
                 ![newLeaf].values = SubSeq(nd.values, mid + 1, Len(nd.values)),
                 ![leaf].keys = SubSeq(nd.keys, 1, mid),
                 ![leaf].values = SubSeq(nd.values, 1, mid)]
        newKey == h2[newLeaf].keys[1]
        h3 == updateSubtreeSize(updateSubtreeSize(h2, leaf), newLeaf)
        t3 == [t1 EXCEPT !.heap = h3]
    IN  IF leaf = t.root
        THEN LET newRoot == NewNode(t3)
                 t4 == Allocate(t3, newRoot, FALSE)
                 h5 == [t4.heap EXCEPT
                          ![newRoot].keys = <<newKey>>,
                          ![newRoot].children = <<leaf, newLeaf>>]
                 t5 == [t4 EXCEPT !.heap = updateSubtreeSize(h5, newRoot),
                                  !.root = newRoot]
             IN  UpdateUp(t5, newRoot)
        ELSE insertInternal(t3, newKey, findParent(t3.heap, t3.root, leaf),
                            newLeaf)

splitLeaf(t, leaf) ==
    LET mid == (order + 1) \div 2
        newLeaf == NewNode(t)
        t1 == Allocate(t, newLeaf, TRUE)
        nd == t.heap[leaf]
        h2 == [t1.heap EXCEPT
                 ![newLeaf].next = nd.next,
                 ![leaf].next = newLeaf,
                 ![newLeaf].keys = SubSeq(nd.keys, mid + 1, Len(nd.keys)),
                 ![newLeaf].values = SubSeq(nd.values, mid + 1, Len(nd.values)),
                 ![leaf].keys = SubSeq(nd.keys, 1, mid),
                 ![leaf].values = SubSeq(nd.values, 1, mid)]
        newKey == h2[newLeaf].keys[1]
        h3 == updateSubtreeSize(updateSubtreeSize(h2, leaf), newLeaf)
        t3 == [t1 EXCEPT !.heap = h3]
    IN  IF leaf = t.root
        THEN LET newRoot == NewNode(t3)
                 t4 == Allocate(t3, newRoot, FALSE)
                 h5 == [t4.heap EXCEPT
                          ![newRoot].keys = <<newKey>>,
                          ![newRoot].children = <<leaf, newLeaf>>]
                 t5 == [t4 EXCEPT !.heap = updateSubtreeSize(h5, newRoot),
                                  !.root = newRoot]
             IN  UpdateUp(t5, newRoot)
        ELSE insertInternal(t3, newKey, findParent(t3.heap, t3.root, leaf),
                            newLeaf)

\* insert splitting a leaf only once it holds more than `order` keys.
insertSplitsLate(t, key, value) ==
    LET leaf == FindLeaf(t.heap, t.root, key)
        nd == t.heap[leaf]
        index == LowerBound(nd.keys, key)
        present == index < Len(nd.keys) /\ nd.keys[index + 1] = key
        h1 == IF present
              THEN [t.heap EXCEPT ![leaf].values[index + 1] = Append(@, value)]
              ELSE [t.heap EXCEPT
                      ![leaf].keys = InsertAt(nd.keys, index + 1, key),
                      ![leaf].values = InsertAt(nd.values, index + 1, <<value>>)]
        t1 == [t EXCEPT !.heap = h1]
    IN  IF Len(h1[leaf].keys) > order
        THEN splitLeaf(t1, leaf)
        ELSE UpdateUp(t1, leaf)

insert(t, key, value) ==
    LET leaf == FindLeaf(t.heap, t.root, key)
        nd == t.heap[leaf]
        index == LowerBound(nd.keys, key)
        present == index < Len(nd.keys) /\ nd.keys[index + 1] = key
        h1 == IF present
              THEN [t.heap EXCEPT ![leaf].values[index + 1] = Append(@, value)]
              ELSE [t.heap EXCEPT
                      ![leaf].keys = InsertAt(nd.keys, index + 1, key),
                      ![leaf].values = InsertAt(nd.values, index + 1, <<value>>)]
        t1 == [t EXCEPT !.heap = h1]
    IN  IF Len(h1[leaf].keys) >= order
        THEN splitLeaf(t1, leaf)
        ELSE UpdateUp(t1, leaf)

\* ------------------------------------------------------------------ remove
borrowFromLeftLeaf(t, leaf, leftSibling, parent, index) ==
    LET l == t.heap[leftSibling]
        h1 == [t.heap EXCEPT
                 ![leaf].keys = <<l.keys[Len(l.keys)]>> \o @,
                 ![leaf].values = <<l.values[Len(l.values)]>> \o @,
                 ![leftSibling].keys = Front(@),
                 ![leftSibling].values = Front(@)]
        h2 == [h1 EXCEPT ![parent].keys[index] = h1[leaf].keys[1]]
    IN  UpdateUp([t EXCEPT !.heap = h2], leaf)

borrowFromRightLeaf(t, leaf, rightSibling, parent, index) ==
    LET r == t.heap[rightSibling]
        h1 == [t.heap EXCEPT
                 ![leaf].keys = Append(@, r.keys[1]),
                 ![leaf].values = Append(@, r.values[1]),
                 ![rightSibling].keys = Tail(@),
                 ![rightSibling].values = Tail(@)]
        h2 == [h1 EXCEPT ![parent].keys[index + 1] = h1[rightSibling].keys[1]]
    IN  UpdateUp([t EXCEPT !.heap = h2], leaf)

\* index: the 0-based position of `left` among parent's children.
mergeLeaf(t, left, right, parent, index) ==
    LET r == t.heap[right]
        h1 == [t.heap EXCEPT
                 ![left].keys = @ \o r.keys,
                 ![left].values = @ \o r.values,
                 ![left].next = r.next,
                 ![parent].keys = RemoveAt(@, index + 1),
                 ![parent].children = RemoveAt(@, index + 2)]
        t1 == DeleteNode([t EXCEPT !.heap = h1], right)
        h2 == updateSubtreeSize(updateSubtreeSize(t1.heap, left), parent)
        t2 == [t1 EXCEPT !.heap = h2]
        t3 == IF parent = t2.root /\ h2[parent].keys = <<>>
              THEN DeleteNode([t2 EXCEPT !.root = left], parent)
              ELSE t2
    IN  UpdateUp(t3, left)

\* The underflow branch of remove: path is the descent, root first.
handleUnderflow(t, path, leaf, minKeys) ==
    LET parent == path[Len(path) - 1]
        cs == t.heap[parent].children
        indexInParent == SetMin({j \in DOMAIN cs : cs[j] = leaf}) - 1
        hasLeft == indexInParent > 0
        hasRight == indexInParent < Len(cs) - 1
        leftSibling == cs[indexInParent]
        rightSibling == cs[indexInParent + 2]
    IN  IF hasLeft /\ Len(t.heap[leftSibling].keys) > minKeys
        THEN UpdateUp(borrowFromLeftLeaf(t, leaf, leftSibling, parent,
                                         indexInParent), leaf)
        ELSE IF hasRight /\ Len(t.heap[rightSibling].keys) > minKeys
        THEN UpdateUp(borrowFromRightLeaf(t, leaf, rightSibling, parent,
                                          indexInParent), leaf)
        ELSE IF hasLeft
        THEN UpdateUp(mergeLeaf(t, leftSibling, leaf, parent, indexInParent - 1),
                      leftSibling)
        ELSE IF hasRight
        THEN UpdateUp(mergeLeaf(t, leaf, rightSibling, parent, indexInParent),
                      leaf)
        ELSE t

remove(t, key) ==
    IF t.root = NULL THEN t
    ELSE LET path == PathFrom(t.heap, t.root, key)
             leaf == path[Len(path)]
             nd == t.heap[leaf]
             index == LowerBound(nd.keys, key)
         IN  IF ~(index < Len(nd.keys) /\ nd.keys[index + 1] = key) THEN t
             ELSE LET h1 == [t.heap EXCEPT
                               ![leaf].keys = RemoveAt(@, index + 1),
                               ![leaf].values = RemoveAt(@, index + 1)]
                      t1 == [t EXCEPT !.heap = h1]
                      minKeys == (order - 1) \div 2
                  IN  IF leaf = t.root /\ h1[leaf].keys = <<>>
                      THEN [DeleteNode(t1, t.root) EXCEPT !.root = NULL]
                      ELSE IF Len(h1[leaf].keys) < minKeys /\ leaf # t.root
                      THEN handleUnderflow(t1, path, leaf, minKeys)
                      ELSE UpdateUp(t1, leaf)

\* ----------------------------------------------------------------- queries
\* A query result read through storage whose content is indeterminate.
Indeterminate == [kind |-> "indeterminate", vals |-> <<>>]

Absent == [kind |-> "nullptr", vals |-> <<>>]

Some(vs) == [kind |-> "some", vals |-> vs]

\* ValueType(), for the ids (int) the indexes store.
ValueTypeDefault == 0

search(h, rt, key) ==
    IF rt = NULL THEN ValueTypeDefault
    ELSE LET current == FindLeaf(h, rt, key)
             index == LowerBound(h[current].keys, key)
         IN  IF index < Len(h[current].keys) /\ h[current].keys[index + 1] = key
             THEN IF h[current].values[index + 1] = <<>> THEN ValueTypeDefault
                  ELSE Head(h[current].values[index + 1])
             ELSE ValueTypeDefault

searchAll(h, rt, key) ==
    IF rt = NULL THEN Absent
    ELSE LET current == FindLeaf(h, rt, key)
             index == LowerBound(h[current].keys, key)
         IN  IF index < Len(h[current].keys) /\ h[current].keys[index + 1] = key
             THEN Some(h[current].values[index + 1])
             ELSE Absent

\* The two nested loops of rangeQuery over the leaf chain, from key i of
\* leaf `current` on.
RECURSIVE ScanLeaves(_, _, _, _, _, _)
ScanLeaves(h, current, i, Smin, Smax, results) ==
    IF current = NULL THEN results
    ELSE IF i > Len(h[current].keys)
         THEN ScanLeaves(h, h[current].next, 1, Smin, Smax, results)
         ELSE LET key == h[current].keys[i]
              IN  IF key > Smax THEN results
                  ELSE IF key >= Smin /\ key <= Smax
                       THEN ScanLeaves(h, current, i + 1, Smin, Smax,
                                       results \o h[current].values[i])
                       ELSE ScanLeaves(h, current, i + 1, Smin, Smax, results)

rangeQuery(h, rt, Smin, Smax) ==
    IF rt = NULL THEN <<>>
    ELSE ScanLeaves(h, FindLeaf(h, rt, Smin), 1, Smin, Smax, <<>>)

RECURSIVE countLessOrEqualRecursive(_, _, _)
countLessOrEqualRecursive(h, node, x) ==
    IF node = NULL THEN 0
    ELSE IF h[node].isLeaf
         THEN SumLens(SubSeq(h[node].values, 1, UpperBound(h[node].keys, x)))
         ELSE LET i == UpperBound(h[node].keys, x)
              IN  SumSizes(h, SubSeq(h[node].children, 1, i))
                  + (IF i < Len(h[node].children)
                     THEN countLessOrEqualRecursive(h, h[node].children[i + 1], x)
                     ELSE 0)

countLessOrEqual(h, rt, x) == countLessOrEqualRecursive(h, rt, x)

\* std::numeric_limits<KeyType>::lowest(): below every key the model uses.
KeyLowest == 0 - (Scale * (MaxKey + Scale + 1))

\* `Smin - 1` subtracts the KeyType value 1, which is Scale units.
countInRange(h, rt, Smin, Smax) ==
    IF rt = NULL THEN 0
    ELSE LET highCount == countLessOrEqual(h, rt, Smax)
             lowCount == IF Smin > KeyLowest
                         THEN countLessOrEqual(h, rt, Smin - Scale)
                         ELSE 0
         IN  highCount - lowCount

\* ----------------------------------------------------------- tree actions
\* BPlusTree::BPlusTree(order): a single empty leaf as root.
EmptyHeap == [n \in NodeIds |-> NewNodeRec(TRUE)]

EmptyRef == [k \in Keys |-> <<>>]

\* The constructor without its check of the order.
TreeInitUnchecked(m) ==
    /\ order = m
    /\ root = 1
    /\ heap = EmptyHeap
    /\ live = {1}
    /\ released = {}
    /\ scribbled = {}
    /\ dfree = FALSE
    /\ status = "ok"

\* BPlusTree(order): throws for order < 3 before any node is allocated, and
\* then there is no object; otherwise the root is a new empty leaf.
TreeInit(m) ==
    /\ order = m
    /\ heap = EmptyHeap
    /\ released = {}
    /\ scribbled = {}
    /\ dfree = FALSE
    /\ IF m < MinOrder
       THEN root = NULL /\ live = {} /\ status = "invalid_argument"
       ELSE root = 1 /\ live = {1} /\ status = "ok"

\* The nodes under n in pre-order.
RECURSIVE PreOrder(_, _)
RECURSIVE PreOrderAll(_, _)
PreOrder(h, n) ==
    IF n = NULL THEN <<>>
    ELSE IF h[n].isLeaf THEN <<n>>
    ELSE <<n>> \o PreOrderAll(h, h[n].children)

PreOrderAll(h, cs) ==
    IF cs = <<>> THEN <<>> ELSE PreOrder(h, Head(cs)) \o PreOrderAll(h, Tail(cs))

\* A node id is an address and carries no meaning of its own: after each
\* operation the nodes the tree points at are renamed 1, 2, ... in pre-order,
\* and storage nothing points at any more is dropped (`released` keeps only
\* what the tree still points at).
SettleIn(t, po) ==
    LET NewId(n) == IF n = NULL THEN NULL
                    ELSE CHOOSE i \in DOMAIN po : po[i] = n
        Renamed(nd) == [nd EXCEPT
                          !.children = [i \in DOMAIN @ |-> NewId(@[i])],
                          !.next = NewId(@)]
    IN  [root |-> NewId(t.root),
         heap |-> [i \in NodeIds |->
                     IF i <= Len(po) THEN Renamed(t.heap[po[i]])
                     ELSE NewNodeRec(TRUE)],
         live |-> {i \in DOMAIN po : po[i] \in t.live},
         released |-> {i \in DOMAIN po : po[i] \in t.released},
         dfree |-> t.dfree]

Settle(t) ==
    CHOOSE s \in {SettleIn(t, po) : po \in {PreOrder(t.heap, t.root)}} : TRUE

Commit(t, scr) ==
    /\ root' = t.root
    /\ heap' = [n \in NodeIds |-> IF n \in scr THEN NewNodeRec(TRUE) ELSE t.heap[n]]
    /\ live' = t.live
    /\ released' = t.released
    /\ dfree' = t.dfree
    /\ scribbled' = scr

\* An operation that ran on released storage either found the old bytes
\* (and leaves them as it wrote them) or leaves the storage overwritten.
Outcome(t) ==
    \/ Commit(t, scribbled \cap t.released)
    \/ /\ t.root # NULL
       /\ t.root \in t.released
       /\ Commit(t, (scribbled \cap t.released) \cup {t.root})

Crash ==
    /\ status' = "crashed"
    /\ UNCHANGED <<order, root, heap, live, released, scribbled, dfree, ref,
                   workload, sideVars, indexVars>>

\* Nodes an insert may need: one per level, plus a new root.
RECURSIVE Height(_, _)
Height(h, n) ==
    IF n = NULL THEN 0
    ELSE IF h[n].isLeaf THEN 1 ELSE 1 + Height(h, h[n].children[1])

HasRoom == Cardinality(FreeIds(Tree)) >= Height(heap, root) + 1

\* The callers the model runs: one inserts many keys with a single value,
\* the other few keys with several values.
Workloads ==
    {[keys |-> 1..MaxKey, vals |-> {1}], [keys |-> 1..FewKeys, vals |-> Vals]}

Insert(key, value) ==
    /\ status = "ok"
    /\ key \in workload.keys
    /\ value \in workload.vals
    /\ Len(ref[key]) < MaxIds
    /\ SumLens(ref) < MaxPairs
    /\ IF root = NULL \/ root \in scribbled
       THEN Crash
       ELSE /\ HasRoom
            /\ Outcome(Settle(insert(Tree, key, value)))
            /\ ref' = [ref EXCEPT ![key] = Append(@, value)]
            /\ UNCHANGED <<order, status, workload, sideVars, indexVars>>

Remove(key) ==
    /\ status = "ok"
    /\ key \in workload.keys
    /\ IF root # NULL /\ root \in scribbled
       THEN Crash
       ELSE /\ Outcome(Settle(remove(Tree, key)))
            /\ ref' = [ref EXCEPT ![key] = <<>>]
            /\ UNCHANGED <<order, status, workload, sideVars, indexVars>>

\* BPlusTree::~BPlusTree: delete root, which takes the whole tree with it.
Destroy ==
    /\ status = "ok"
    /\ status' = "destroyed"
    /\ LET t == IF root = NULL THEN Tree ELSE DeleteNode(Tree, root)
       IN  /\ live' = t.live
           /\ released' = t.released
           /\ dfree' = t.dfree
    /\ UNCHANGED <<order, root, heap, scribbled, ref, workload, sideVars, indexVars>>

\* ------------------------------------- the single-value tree, BPlusTree2.h
\* A leaf of this tree keeps one value per key: values[i] is the value itself.
RECURSIVE findParent2(_, _, _)
RECURSIVE findParent2From(_, _, _, _)
findParent2(h, current, child) ==
    IF h[current].isLeaf \/ h[current].children = <<>> THEN NULL
    ELSE findParent2From(h, current, child, 1)

findParent2From(h, current, child, i) ==
    IF i > Len(h[current].children) THEN NULL
    ELSE IF h[current].children[i] = child THEN current
    ELSE LET parent == findParent2(h, h[current].children[i], child)
         IN  IF parent # NULL THEN parent
             ELSE findParent2From(h, current, child, i + 1)

RECURSIVE insertInternal2(_, _, _, _)
RECURSIVE splitInternal2(_, _)

splitInternal2(t, internal) ==
    LET nd == t.heap[internal]
        mid == Len(nd.keys) \div 2
        newInternal == NewNode(t)
        t1 == Allocate(t, newInternal, FALSE)
        upKey == nd.keys[mid + 1]
        h2 == [t1.heap EXCEPT
                 ![newInternal].keys = SubSeq(nd.keys, mid + 2, Len(nd.keys)),
                 ![newInternal].children =
                     SubSeq(nd.children, mid + 2, Len(nd.children)),
                 ![internal].keys = SubSeq(nd.keys, 1, mid),
                 ![internal].children = SubSeq(nd.children, 1, mid + 1)]
        t2 == [t1 EXCEPT !.heap = h2]
    IN  IF internal = t.root
        THEN LET newRoot == NewNode(t2)
                 t3 == Allocate(t2, newRoot, FALSE)
             IN  [t3 EXCEPT !.heap = [@ EXCEPT
                                        ![newRoot].keys = <<upKey>>,
                                        ![newRoot].children = <<internal, newInternal>>],
                            !.root = newRoot]
        ELSE insertInternal2(t2, upKey, findParent2(t2.heap, t2.root, internal),
                             newInternal)

insertInternal2(t, key, current, child) ==
    LET nd == t.heap[current]
        index == UpperBound(nd.keys, key)
        h1 == [t.heap EXCEPT
                 ![current].keys = InsertAt(nd.keys, index + 1, key),
                 ![current].children = InsertAt(nd.children, index + 2, child)]
        t1 == [t EXCEPT !.heap = h1]
    IN  IF Len(h1[current].keys) >= order
        THEN splitInternal2(t1, current)
        ELSE t1

splitLeaf2(t, leaf) ==
    LET mid == (order + 1) \div 2
        newLeaf == NewNode(t)
        t1 == Allocate(t, newLeaf, TRUE)
        nd == t.heap[leaf]
        h2 == [t1.heap EXCEPT
                 ![newLeaf].next = nd.next,
                 ![leaf].next = newLeaf,
                 ![newLeaf].keys = SubSeq(nd.keys, mid + 1, Len(nd.keys)),
                 ![newLeaf].values = SubSeq(nd.values, mid + 1, Len(nd.values)),
                 ![leaf].keys = SubSeq(nd.keys, 1, mid),
                 ![leaf].values = SubSeq(nd.values, 1, mid)]
        newKey == h2[newLeaf].keys[1]
        t2 == [t1 EXCEPT !.heap = h2]
    IN  IF leaf = t.root
        THEN LET newRoot == NewNode(t2)
                 t3 == Allocate(t2, newRoot, FALSE)
             IN  [t3 EXCEPT !.heap = [@ EXCEPT
                                        ![newRoot].keys = <<newKey>>,
                                        ![newRoot].children = <<leaf, newLeaf>>],
                            !.root = newRoot]
        ELSE insertInternal2(t2, newKey, findParent2(t2.heap, t2.root, leaf),
                             newLeaf)

\* insert of BPlusTree2.h with its test for a key already there left out.
insert2AlwaysAdds(t, key, value) ==
    LET leaf == FindLeaf(t.heap, t.root, key)
        nd == t.heap[leaf]
        index == LowerBound(nd.keys, key)
        h1 == [t.heap EXCEPT
                 ![leaf].keys = InsertAt(nd.keys, index + 1, key),
                 ![leaf].values = InsertAt(nd.values, index + 1, value)]
        t1 == [t EXCEPT !.heap = h1]
    IN  IF Len(h1[leaf].keys) >= order THEN splitLeaf2(t1, leaf) ELSE t1

insert2(t, key, value) ==
    LET leaf == FindLeaf(t.heap, t.root, key)
        nd == t.heap[leaf]
        index == LowerBound(nd.keys, key)
    IN  IF index < Len(nd.keys) /\ nd.keys[index + 1] = key
        THEN [t EXCEPT !.heap = [@ EXCEPT ![leaf].values[index + 1] = value]]
        ELSE LET h1 == [t.heap EXCEPT
                          ![leaf].keys = InsertAt(nd.keys, index + 1, key),
                          ![leaf].values = InsertAt(nd.values, index + 1, value)]
                 t1 == [t EXCEPT !.heap = h1]
             IN  IF Len(h1[leaf].keys) >= order THEN splitLeaf2(t1, leaf) ELSE t1

search2(h, rt, key) ==
    LET current == FindLeaf(h, rt, key)
        index == LowerBound(h[current].keys, key)
    IN  IF index < Len(h[current].keys) /\ h[current].keys[index + 1] = key
        THEN h[current].values[index + 1]
        ELSE ValueTypeDefault

\* The caller of the insertion tests: any key with any value, again and again.
SingleCaller == [keys |-> Keys, vals |-> Vals]

\* bpt.insert(key, value); std_map[key] = value.  `ref` keeps every value the
\* caller gave under the key; the reference map holds the last of them.
Insert2(key, value) ==
    /\ kind = "BPlusTree2"
    /\ status = "ok"
    /\ key \in workload.keys
    /\ value \in workload.vals
    /\ Len(ref[key]) < MaxIds
    /\ SumLens(ref) < MaxPairs
    /\ ref[key] # <<>> \/ HasRoom
    /\ Commit(Settle(insert2(Tree, key, value)), {})
    /\ ref' = [ref EXCEPT ![key] = Append(@, value)]
    /\ UNCHANGED <<order, status, workload, sideVars, indexVars>>

\* ------------------------------------------------------------ the indexes
\* VectorIndex / ProbabilisticVectorIndex constructor: hnswEfSearch(200).
hnswEfSearch == 200

\* computeRequiredO_Enhanced: O += 100.
SafetyMargin == 100

\* insert: size_t maxElements = 100000;
hnswMaxElements == 100000

NoOracle == [created |-> FALSE, labels |-> {}, ef |-> 0]

NoQuery ==
    [variant |-> "none", v |-> <<>>, k |-> 0, Smin |-> 0, Smax |-> 0, O |-> 0,
     count |-> 0, plan |-> "none", asked |-> 0, cands |-> {}, result |-> <<>>]

IndexInit ==
    /\ maxElements = hnswMaxElements
    /\ dataVectors = <<>>
    /\ sValues = <<>>
    /\ dimension = 0
    /\ hnswIndex = NoOracle
    /\ ret = "none"
    /\ q = NoQuery

\* Record ids are 0-based positions in dataVectors and sValues.
vecOfIndex(idx) == dataVectors[idx + 1]

sOfIndex(idx) == sValues[idx + 1]

RECURSIVE SumSquares(_, _, _)
SumSquares(a, b, i) ==
    IF i > Len(a) THEN 0
    ELSE (a[i] - b[i]) * (a[i] - b[i]) + SumSquares(a, b, i + 1)

euclideanDistSquared(a, b) == SumSquares(a, b, 1)

\* std::sort with a comparator on the distance alone: the outcome is some
\* arrangement in non-decreasing distance; the order of candidates at equal
\* distance is whatever the sort leaves.
SortOutcomes(ids, v) ==
    {p \in [1..Cardinality(ids) -> ids] :
        /\ \A i, j \in DOMAIN p : i # j => p[i] # p[j]
        /\ \A i, j \in DOMAIN p :
              i < j => euclideanDistSquared(v, vecOfIndex(p[i]))
                         <= euclideanDistSquared(v, vecOfIndex(p[j]))}

\* for (i = 0; i < k && i < distIndex.size(); i++) result.push_back(...)
TopK(sorted, k) ==
    IF k <= 0 THEN <<>>
    ELSE SubSeq(sorted, 1, IF k < Len(sorted) THEN k ELSE Len(sorted))

SeqToSet(sq) == {sq[i] : i \in DOMAIN sq}

\* The ANN branch with its scalar filter left out.
KeepEveryCandidate(ids, Smin, Smax) == ids

\* The scalar filter of the ANN branch.
FilterByScalar(ids, Smin, Smax) ==
    {idx \in ids : sOfIndex(idx) >= Smin /\ sOfIndex(idx) <= Smax}

\* searchKnn(query, O): up to O labels of the oracle, whichever it finds.
OracleAnswers(O) ==
    {c \in SUBSET hnswIndex.labels : Cardinality(c) <= O}

\* ------------------------------------------------ candidate-size chooser
\* binomialCoefficient: result = result * (n - (kk - i)) / i, i = 1..kk.
RECURSIVE BinomialProduct(_, _, _, _)
BinomialProduct(n, kk, i, result) ==
    IF i > kk THEN result
    ELSE BinomialProduct(n, kk, i + 1, (result * (n - (kk - i))) \div i)

binomialCoefficient(n, k) ==
    IF k > n THEN 0
    ELSE IF k = 0 \/ k = n THEN 1
    ELSE BinomialProduct(n, IF k < n - k THEN k ELSE n - k, 1, 1)

RECURSIVE Pow(_, _)
Pow(b, e) == IF e <= 0 THEN 1 ELSE b * Pow(b, e - 1)

\* binomialPMF(n, k, p) with p = S / M, times M^n.
binomialPMF(n, k, S, M) ==
    IF S < 0 \/ S > M THEN 0
    ELSE binomialCoefficient(n, k) * Pow(S, k) * Pow(M - S, n - k)

\* binomialCDFLessThan(n, k, p) with p = S / M, times M^n.
RECURSIVE CDFSum(_, _, _, _, _)
CDFSum(n, k, S, M, i) ==
    IF i >= k THEN 0 ELSE binomialPMF(n, i, S, M) + CDFSum(n, k, S, M, i + 1)

binomialCDFLessThan(n, k, S, M) == CDFSum(n, k, S, M, 0)

\* The chooser's test made strict.
StrictlyBelowAlpha(M, S, k, alpha, O) ==
    binomialCDFLessThan(O, k, S, M) * alpha[2] < alpha[1] * Pow(M, O)

\* probFewerThanK <= alpha for O candidates; alpha is <<numerator, denominator>>.
GoodEnough(M, S, k, alpha, O) ==
    binomialCDFLessThan(O, k, S, M) * alpha[2] <= alpha[1] * Pow(M, O)

\* What one call of a chooser did: the value it returned and the candidate
\* sizes at which it evaluated the binomial CDF, in order.
NoProbe(O) == [O |-> O, probes |-> <<>>]

\* The loop keeping mid - 1 as its best value where mid was good enough.
RECURSIVE BinarySearchRunBelowMid(_, _, _, _, _, _, _, _)
BinarySearchRunBelowMid(M, S, k, alpha, left, right, best, probes) ==
    IF left > right THEN [O |-> best, probes |-> probes]
    ELSE LET mid == (left + right) \div 2
         IN  IF GoodEnough(M, S, k, alpha, mid)
             THEN BinarySearchRunBelowMid(M, S, k, alpha, left, mid - 1, mid - 1,
                                  Append(probes, mid))
             ELSE BinarySearchRunBelowMid(M, S, k, alpha, mid + 1, right, best,
                                  Append(probes, mid))

\* The loop of computeRequiredO_BinarySearch.
RECURSIVE BinarySearchRun(_, _, _, _, _, _, _, _)
BinarySearchRun(M, S, k, alpha, left, right, best, probes) ==
    IF left > right THEN [O |-> best, probes |-> probes]
    ELSE LET mid == (left + right) \div 2
         IN  IF GoodEnough(M, S, k, alpha, mid)
             THEN BinarySearchRun(M, S, k, alpha, left, mid - 1, mid,
                                  Append(probes, mid))
             ELSE BinarySearchRun(M, S, k, alpha, mid + 1, right, best,
                                  Append(probes, mid))

BinarySearchO(M, S, k, alpha, left, right, best) ==
    BinarySearchRun(M, S, k, alpha, left, right, best, <<>>).O

\* The binary-search chooser with the test of S moved before the test of k.
computeRequiredO_CountFirst(M, S, k, alpha) ==
    IF S <= 0 THEN NoProbe(k)
    ELSE IF k <= 0 THEN NoProbe(0)
    ELSE IF S >= M THEN NoProbe(k)
    ELSE IF alpha[1] <= 0 THEN NoProbe(k)
    ELSE BinarySearchRun(M, S, k, alpha, k, M, M, <<>>)

computeRequiredO_BinarySearchRun(M, S, k, alpha) ==
    IF k <= 0 THEN NoProbe(0)
    ELSE IF S <= 0 THEN NoProbe(k)
    ELSE IF S >= M THEN NoProbe(k)
    ELSE IF alpha[1] <= 0 THEN NoProbe(k)
    ELSE BinarySearchRun(M, S, k, alpha, k, M, M, <<>>)

computeRequiredO_BinarySearch(M, S, k, alpha) ==
    computeRequiredO_BinarySearchRun(M, S, k, alpha).O

\* The loop of computeRequiredO_Linear.
RECURSIVE LinearRun(_, _, _, _, _, _)
LinearRun(M, S, k, alpha, O, probes) ==
    IF O > M THEN [O |-> M, probes |-> probes]
    ELSE IF GoodEnough(M, S, k, alpha, O)
    THEN [O |-> O, probes |-> Append(probes, O)]
    ELSE LinearRun(M, S, k, alpha, O + 1, Append(probes, O))

computeRequiredO_LinearRun(M, S, k, alpha) ==
    IF k <= 0 THEN NoProbe(0)
    ELSE IF S <= 0 THEN NoProbe(k)
    ELSE IF S >= M THEN NoProbe(k)
    ELSE IF alpha[1] <= 0 THEN NoProbe(k)
    ELSE LinearRun(M, S, k, alpha, k, <<>>)

computeRequiredO_Linear(M, S, k, alpha) ==
    computeRequiredO_LinearRun(M, S, k, alpha).O

\* The chooser with its safety margin left out.
computeRequiredO_NoMargin(M, S, k, alpha) ==
    computeRequiredO_BinarySearch(M, S, k, alpha)

computeRequiredO_Enhanced(M, S, k, alpha) ==
    computeRequiredO_BinarySearch(M, S, k, alpha) + SafetyMargin

\* ------------------------------------------------- the choosers called alone
NoCall == [fn |-> "none", M |-> 0, S |-> 0, k |-> 0, alpha |-> <<0, 1>>,
           O |-> 0, probes |-> <<>>]

ChooserMs == 0..MaxM

ChooserSs == (0 - 1)..(MaxM + 1)

ChooserKs == (0 - 1)..(MaxM + 1)

\* alpha as <<numerator, denominator>>: negative, zero, the default 0.01,
\* values the CDF meets exactly (1/4, 1/2), and values of 1 and more.
ChooserAlphas ==
    {<<0 - 1, 100>>, <<0, 1>>, <<1, 100>>, <<1, 10>>, <<1, 4>>, <<1, 2>>,
     <<3, 4>>, <<1, 1>>, <<2, 1>>}

ChooserArgs ==
    {[NoCall EXCEPT !.M = M, !.S = S, !.k = k, !.alpha = alpha] :
        M \in ChooserMs, S \in ChooserSs, k \in ChooserKs, alpha \in ChooserAlphas}

CallBinarySearch ==
    /\ chooser.fn = "none"
    /\ LET run == computeRequiredO_BinarySearchRun(chooser.M, chooser.S,
                                                    chooser.k, chooser.alpha)
       IN  chooser' = [chooser EXCEPT !.fn = "computeRequiredO_BinarySearch",
                                      !.O = run.O, !.probes = run.probes]
    /\ UNCHANGED <<treeVars, ref, workload, indexVars, op>>

CallLinear ==
    /\ chooser.fn = "none"
    /\ LET run == computeRequiredO_LinearRun(chooser.M, chooser.S,
                                              chooser.k, chooser.alpha)
       IN  chooser' = [chooser EXCEPT !.fn = "computeRequiredO_Linear",
                                      !.O = run.O, !.probes = run.probes]
    /\ UNCHANGED <<treeVars, ref, workload, indexVars, op>>

CallEnhanced ==
    /\ chooser.fn = "none"
    /\ LET run == computeRequiredO_BinarySearchRun(chooser.M, chooser.S,
                                                    chooser.k, chooser.alpha)
       IN  chooser' = [chooser EXCEPT !.fn = "computeRequiredO_Enhanced",
                                      !.O = computeRequiredO_Enhanced(
                                                chooser.M, chooser.S,
                                                chooser.k, chooser.alpha),
                                      !.probes = run.probes]
    /\ UNCHANGED <<treeVars, ref, workload, indexVars, op>>

\* ---------------------------------------------------------- index actions
\* query(..., double alpha = 0.01)
DefaultAlpha == <<1, 100>>

Alphas == {DefaultAlpha}

IndexKinds == {"VectorIndex", "ProbabilisticVectorIndex"}

NoCaller == [keys |-> {}, vals |-> {}]

\* The dimension check of insert left out.
insertErrorEmptyOnly(vec) ==
    IF vec = <<>> THEN "Cannot insert empty vector" ELSE "ok"

\* The argument checks of insert: the message of the exception thrown, or "ok".
insertError(vec) ==
    IF vec = <<>> THEN "Cannot insert empty vector"
    ELSE IF dataVectors # <<>> /\ Len(vec) # dimension
         THEN "All vectors must have the same dimension"
         ELSE "ok"

\* The id of the last record handed out again.
NextIdReused == IF dataVectors = <<>> THEN 0 ELSE Len(dataVectors) - 1

\* int idx = (int)dataVectors.size();
NextId == Len(dataVectors)

\* hnswIndex->addPoint on an oracle that holds maxElements points already:
\* the exception it throws is not caught by insert.
AddPointError == "The number of elements exceeds the specified limit"

\* VectorIndex::insert and ProbabilisticVectorIndex::insert (the same code):
\* the arguments are checked, the oracle is created on the first insert, the
\* record goes into the store and into the tree, and addPoint comes last.
IndexInsert(vec, s) ==
    /\ kind \in IndexKinds
    /\ status = "ok"
    /\ IF insertError(vec) # "ok"
       THEN /\ ret' = insertError(vec)
            /\ q' = NoQuery
            /\ UNCHANGED <<treeVars, ref, workload, sideVars, dataVectors, sValues,
                           dimension, hnswIndex, kind, maxElements>>
       ELSE LET idx == NextId
                full == Cardinality(hnswIndex.labels) >= maxElements
            IN  /\ Len(dataVectors) < MaxRecords
                /\ dimension' = IF dataVectors = <<>> THEN Len(vec) ELSE dimension
                /\ dataVectors' = Append(dataVectors, vec)
                /\ sValues' = Append(sValues, s)
                /\ Commit(Settle(insert(Tree, s, idx)), {})
                /\ hnswIndex' =
                      [created |-> TRUE,
                       labels |-> IF full THEN hnswIndex.labels
                                  ELSE hnswIndex.labels \cup {idx},
                       ef |-> IF dataVectors = <<>> THEN hnswEfSearch
                              ELSE hnswIndex.ef]
                /\ ret' = IF full THEN AddPointError ELSE "ok"
                /\ q' = NoQuery
                /\ UNCHANGED <<order, status, ref, workload, sideVars, kind,
                               maxElements>>

\* The empty-index check of query never taken.
NoDataUnchecked == FALSE

\* if (hnswIndex == nullptr || dataVectors.empty()) return {};
NoData == ~hnswIndex.created \/ dataVectors = <<>>

\* The dimension check of query placed after the count.
RejectAfterCount(b) ==
    [b EXCEPT !.plan = "invalid_argument",
              !.count = countInRange(heap, root, b.Smin, b.Smax)]

\* throw std::invalid_argument("Query vector dimension does not match ...")
Reject(b) == [b EXCEPT !.plan = "invalid_argument"]

QueryArgs(v, k, Smin, Smax) ==
    [NoQuery EXCEPT !.variant = kind, !.v = v, !.k = k,
                    !.Smin = Smin, !.Smax = Smax]

\* approximateNearestNeighbors: the probabilistic index returns nothing for
\* O <= 0; the fixed one hands O to searchKnn as it is.
approximateNearestNeighbors(O) ==
    IF kind = "ProbabilisticVectorIndex" /\ O <= 0 THEN {{}}
    ELSE IF O < 0 THEN SUBSET hnswIndex.labels
    ELSE OracleAnswers(O)

\* The tail both ANN paths share: filter by scalar, sort by distance, top k.
AnnPlan(b, O) ==
    UNION {{[b EXCEPT !.plan = "ann", !.O = O, !.asked = O, !.cands = c,
                       !.result = TopK(p, b.k)] :
               p \in SortOutcomes(FilterByScalar(c, b.Smin, b.Smax), b.v)} :
           c \in approximateNearestNeighbors(O)}

\* The exact path: every id of the range, sorted by distance, top k.
ScanPlan(b, O) ==
    {[b EXCEPT !.plan = "scan", !.O = O, !.result = TopK(p, b.k)] :
        p \in SortOutcomes(SeqToSet(rangeQuery(heap, root, b.Smin, b.Smax)), b.v)}

\* VectorIndex::query.  A query leaves the index as it found it, so the queries
\* of one index state are all taken from the state the last insert left.
VectorIndexQuery(v, k, Smin, Smax, O) ==
    /\ kind = "VectorIndex"
    /\ status = "ok"
    /\ q = NoQuery
    /\ LET b == QueryArgs(v, k, Smin, Smax)
           count == countInRange(heap, root, Smin, Smax)
           c == [b EXCEPT !.count = count]
       IN  IF NoData
           THEN q' = [b EXCEPT !.plan = "nodata", !.O = O]
           ELSE IF Len(v) # dimension
           THEN q' = Reject([b EXCEPT !.O = O])
           ELSE IF count <= 0
           THEN q' = [c EXCEPT !.plan = "empty", !.O = O]
           ELSE IF count < O
           THEN q' \in ScanPlan(c, O)
           ELSE q' \in AnnPlan(c, O)
    /\ ret' = "none"
    /\ UNCHANGED <<treeVars, ref, workload, sideVars, dataVectors, sValues, dimension,
                   hnswIndex, kind, maxElements>>

\* ProbabilisticVectorIndex::query
ProbabilisticQuery(v, k, Smin, Smax, alpha) ==
    /\ kind = "ProbabilisticVectorIndex"
    /\ status = "ok"
    /\ q = NoQuery
    /\ LET b == QueryArgs(v, k, Smin, Smax)
           S == countInRange(heap, root, Smin, Smax)
           M == Len(dataVectors)
           O == computeRequiredO_Enhanced(M, S, k, alpha)
           c == [b EXCEPT !.count = S]
           ef == IF hnswEfSearch > O + 50 THEN hnswEfSearch ELSE O + 50
       IN  IF NoData
           THEN q' = [b EXCEPT !.plan = "nodata"] /\ UNCHANGED hnswIndex
           ELSE IF Len(v) # dimension
           THEN q' = Reject(b) /\ UNCHANGED hnswIndex
           ELSE IF S <= 0
           THEN q' = [c EXCEPT !.plan = "empty"] /\ UNCHANGED hnswIndex
           ELSE /\ hnswIndex' = [hnswIndex EXCEPT !.ef = ef]
                /\ q' \in AnnPlan(c, O)
    /\ ret' = "none"
    /\ UNCHANGED <<treeVars, ref, workload, sideVars, dataVectors, sValues, dimension,
                   kind, maxElements>>

Init ==
    /\ \E m \in CtorOrders : TreeInit(m)
    /\ chooser = NoCall
    /\ op = Idle
    /\ ref = EmptyRef
    /\ workload \in Workloads
    /\ IndexInit
    /\ kind = "none"

Next ==
    \/ \E key \in Keys, value \in Vals : Insert(key, value)
    \/ \E key \in Keys : Remove(key)
    \/ Destroy

Spec == Init /\ [][Next]_vars

\* A caller that only ever inserts.
NextInsertOnly == \E key \in Keys, value \in Vals : Insert(key, value)

SpecInsertOnly == Init /\ [][NextInsertOnly]_vars

InitIndex ==
    /\ \E m \in CtorOrders : TreeInit(m)
    /\ chooser = NoCall
    /\ op = Idle
    /\ ref = EmptyRef
    /\ workload = NoCaller
    /\ IndexInit
    /\ kind \in IndexKinds

NextIndex ==
    \/ \E vec \in Vecs, s \in Scalars : IndexInsert(vec, s)
    \/ \E v \in QueryVecs, k \in Ks, Smin \in QueryBounds, Smax \in QueryBounds,
          O \in Os : VectorIndexQuery(v, k, Smin, Smax, O)
    \/ \E v \in QueryVecs, k \in Ks, Smin \in QueryBounds, Smax \in QueryBounds,
          alpha \in Alphas : ProbabilisticQuery(v, k, Smin, Smax, alpha)

SpecIndex == InitIndex /\ [][NextIndex]_vars

InitChooser ==
    /\ TreeInit(MinOrder)
    /\ ref = EmptyRef
    /\ workload = NoCaller
    /\ IndexInit
    /\ kind = "none"
    /\ chooser \in ChooserArgs
    /\ op = Idle

NextChooser ==
    \/ CallBinarySearch
    \/ CallLinear
    \/ CallEnhanced

SpecChooser == InitChooser /\ [][NextChooser]_vars

InitSingle ==
    /\ \E m \in CtorOrders : TreeInit(m)
    /\ chooser = NoCall
    /\ op = Idle
    /\ ref = EmptyRef
    /\ workload = SingleCaller
    /\ dataVectors = <<>> /\ sValues = <<>> /\ dimension = 0
    /\ hnswIndex = NoOracle /\ ret = "none" /\ q = NoQuery
    /\ maxElements = hnswMaxElements
    /\ kind = "BPlusTree2"

NextSingle == \E key \in Keys, value \in Vals : Insert2(key, value)

SpecSingle == InitSingle /\ [][NextSingle]_vars

\* An index whose oracle is created with room for a few points only, so that
\* inserts reach its capacity: the code's 100000 scaled down.
SmallCapacity == 2

InitCapacity ==
    /\ \E m \in CtorOrders : TreeInit(m)
    /\ chooser = NoCall
    /\ op = Idle
    /\ ref = EmptyRef
    /\ workload = NoCaller
    /\ dataVectors = <<>> /\ sValues = <<>> /\ dimension = 0
    /\ hnswIndex = NoOracle /\ ret = "none" /\ q = NoQuery
    /\ maxElements \in 1..SmallCapacity
    /\ kind \in IndexKinds

NextCapacity == \E vec \in Vecs, s \in Scalars : IndexInsert(vec, s)

SpecCapacity == InitCapacity /\ [][NextCapacity]_vars

\* ------------------------------------------------- reading the tree
\* The root pointer dangles into storage that has since been overwritten:
\* whatever is read through it is indeterminate.
Dangling == root # NULL /\ root \in scribbled

SearchAllNow(key) ==
    IF Dangling THEN Indeterminate ELSE searchAll(heap, root, key)

RangeQueryNow(Smin, Smax) ==
    IF Dangling THEN Indeterminate ELSE Some(rangeQuery(heap, root, Smin, Smax))

CountLessOrEqualNow(x) ==
    IF Dangling THEN Indeterminate ELSE Some(<<countLessOrEqual(heap, root, x)>>)

\* The reference multimap read the way the tree is asked.
RefRange(a, b) ==
    IF a > b THEN <<>> ELSE Flatten([i \in 1..(b - a + 1) |-> ref[a + i - 1]])

RefCount(x) == SumLens([i \in 1..(IF x < MaxKey THEN x ELSE MaxKey) |-> ref[i]])

\* The pairs actually stored under a node.
RECURSIVE ActualSize(_, _)
ActualSize(h, n) ==
    IF h[n].isLeaf THEN SumLens(h[n].values)
    ELSE LET Sum[i \in 0..Len(h[n].children)] ==
                 IF i = 0 THEN 0 ELSE Sum[i - 1] + ActualSize(h, h[n].children[i])
         IN  Sum[Len(h[n].children)]

RECURSIVE LeafDepths(_, _, _)
LeafDepths(h, n, d) ==
    IF n = NULL THEN {}
    ELSE IF h[n].isLeaf THEN {d}
    ELSE UNION {LeafDepths(h, h[n].children[i], d + 1) : i \in DOMAIN h[n].children}

RECURSIVE KeysUnder(_, _)
KeysUnder(h, n) ==
    IF h[n].isLeaf THEN SeqToSet(h[n].keys)
    ELSE UNION {KeysUnder(h, h[n].children[i]) : i \in DOMAIN h[n].children}

SeparatorsOrdered(h, n) ==
    \A i \in DOMAIN h[n].keys :
        /\ \A x \in KeysUnder(h, h[n].children[i]) : x < h[n].keys[i]
        /\ \A x \in KeysUnder(h, h[n].children[i + 1]) : x >= h[n].keys[i]

\* ------------------------------------------------------------- tree claims
\* C1: after any sequence of inserts and removes, searchAll(K) returns the ids
\* inserted under K since K was last removed, in insertion order, and reports
\* absence when there are none.
C1_RoundTrip ==
    \A K \in Keys :
        SearchAllNow(K) = IF ref[K] = <<>> THEN Absent ELSE Some(ref[K])

\* C2: rangeQuery(a, b) returns exactly the ids stored under the keys of
\* [a, b], ascending by key and in insertion order within a key, and nothing
\* when a > b.
C2_RangeQueryExact ==
    \A a \in Keys, b \in Keys : RangeQueryNow(a, b) = Some(RefRange(a, b))

\* C3: countLessOrEqual(x) is the number of stored (key, id) pairs with
\* key <= x.
C3_CountLessOrEqualExact ==
    \A x \in 0..(MaxKey + 1) : CountLessOrEqualNow(x) = Some(<<RefCount(x)>>)

\* C4: after every insert and remove, each node's subtree_size is the number
\* of pairs stored under it.
C4_SubtreeSizesExact ==
    /\ ~Dangling
    /\ \A n \in Reach(heap, root) : heap[n].subtree_size = ActualSize(heap, n)

\* C9: after any sequence of inserts and removes, every leaf is at the same
\* depth.
C9_LeavesSameDepth ==
    /\ ~Dangling
    /\ Cardinality(LeafDepths(heap, root, 0)) <= 1

\* C10: for every separator K at position i of an internal node, the keys
\* under child i are below K and the keys under child i + 1 are at least K.
C10_SeparatorsOrdered ==
    /\ ~Dangling
    /\ \A n \in Reach(heap, root) : ~heap[n].isLeaf => SeparatorsOrdered(heap, n)

\* ---------------------------------------------------- more tree claims
RECURSIVE LeavesInOrder(_, _)
LeavesInOrder(h, n) ==
    IF n = NULL THEN <<>>
    ELSE IF h[n].isLeaf THEN <<n>>
    ELSE Flatten([i \in DOMAIN h[n].children |-> LeavesInOrder(h, h[n].children[i])])

\* The walk along the forward pointers, given up after `fuel` leaves.
RECURSIVE ChainFrom(_, _, _)
ChainFrom(h, n, fuel) ==
    IF n = NULL \/ fuel = 0 THEN <<>>
    ELSE <<n>> \o ChainFrom(h, h[n].next, fuel - 1)

LeafChain ==
    LET inOrder == LeavesInOrder(heap, root)
    IN  IF inOrder = <<>> THEN <<>> ELSE ChainFrom(heap, inOrder[1], MaxNodes + 1)

StrictlyAscending(keys) == \A i, j \in DOMAIN keys : i < j => keys[i] < keys[j]

LiveKeys == {K \in Keys : ref[K] # <<>>}

\* C11: walking the forward pointers from the leftmost leaf visits every leaf
\* exactly once, ends at a null pointer, and yields every live key exactly
\* once in strictly ascending order.
C11_LeafChainComplete ==
    /\ ~Dangling
    /\ LeafChain = LeavesInOrder(heap, root)
    /\ LET keys == Flatten([i \in DOMAIN LeafChain |-> heap[LeafChain[i]].keys])
       IN  StrictlyAscending(keys) /\ SeqToSet(keys) = LiveKeys

\* C12: after every insert or remove, every node holds at most order - 1
\* keys, every internal node with n keys has n + 1 children, the keys of
\* every node are strictly ascending, and every leaf key has a non-empty
\* id-list.
C12_NodeShape ==
    /\ ~Dangling
    /\ \A n \in Reach(heap, root) :
          /\ Len(heap[n].keys) <= order - 1
          /\ StrictlyAscending(heap[n].keys)
          /\ ~heap[n].isLeaf => Len(heap[n].children) = Len(heap[n].keys) + 1
          /\ heap[n].isLeaf =>
                /\ Len(heap[n].values) = Len(heap[n].keys)
                /\ \A i \in DOMAIN heap[n].values : heap[n].values[i] # <<>>

\* C13: every leaf that is not the root holds at least floor((order - 1) / 2)
\* keys.
C13_LeafMinimum ==
    \A n \in Reach(heap, root) :
        (heap[n].isLeaf /\ n # root) => Len(heap[n].keys) >= (order - 1) \div 2

\* C14: every internal node that is not the root holds at least
\* ceil(order / 2) - 1 keys.
C14_InternalMinimum ==
    \A n \in Reach(heap, root) :
        (~heap[n].isLeaf /\ n # root)
            => Len(heap[n].keys) >= ((order + 1) \div 2) - 1

\* C15: no node reachable from the root is ever released, and over the whole
\* life of the tree, its destruction included, no node is released twice.
C15_RootStaysLive ==
    /\ status # "destroyed" => Reach(heap, root) \cap released = {}
    /\ ~dfree

\* C16: remove(K) for a key K that is not in the tree returns normally and
\* leaves the root, the nodes and all their fields as they were.
C16_RemoveAbsentIsNoOp ==
    [][\A K \in Keys :
          (Remove(K) /\ ref[K] = <<>>)
              => (status' = "ok" /\ UNCHANGED <<root, heap, live, released>>)]_vars

\* ------------------------------------------------------------ index claims
RecordIds == 0..(Len(sValues) - 1)

\* The stored records whose scalar lies in [Smin, Smax].
InRangeIds(Smin, Smax) ==
    {idx \in RecordIds : Smin <= sOfIndex(idx) /\ sOfIndex(idx) <= Smax}

Dist(idx) == euclideanDistSquared(q.v, vecOfIndex(idx))

\* The query went past its sanity checks and counted the range.
Counted == q.plan \in {"empty", "scan", "ann"}

\* The query returned a list (it did not throw).
Returned == q.plan \in {"nodata", "empty", "scan", "ann"}

\* The candidates the plan ranked: the whole range on the exact path, the
\* oracle's answer after the scalar filter on the ANN path.
Pool ==
    IF q.plan = "scan" THEN InRangeIds(q.Smin, q.Smax)
    ELSE FilterByScalar(q.cands, q.Smin, q.Smax)

NonDecreasing(result) ==
    \A i, j \in DOMAIN result : i < j => Dist(result[i]) <= Dist(result[j])

Distinct(result) ==
    \A i, j \in DOMAIN result : i # j => result[i] # result[j]

\* result is a choice of the n closest records of `among`.
ClosestOf(result, among, n) ==
    /\ Len(result) = n
    /\ Distinct(result)
    /\ SeqToSet(result) \subseteq among
    /\ NonDecreasing(result)
    /\ \A x \in among \ SeqToSet(result), i \in DOMAIN result : Dist(result[i]) <= Dist(x)

Min(a, b) == IF a < b THEN a ELSE b

Max(a, b) == IF a > b THEN a ELSE b

\* C5: the count S the planner obtains from countInRange(Smin, Smax), with
\* Smin <= Smax, is the number of stored records with Smin <= s <= Smax; a
\* record with scalar strictly between Smin - 1 and Smin is not counted.
C5_CountIsInRangeCount ==
    (Counted /\ q.Smin <= q.Smax)
        => q.count = Cardinality(InRangeIds(q.Smin, q.Smax))

\* C6: on the fixed-threshold index, with S the number of records passing the
\* filter: when 0 < S < O the exact path is taken, the oracle is not consulted
\* and the result is the min(k, S) closest in-range records by ascending
\* distance; when S >= O the oracle is asked for O candidates and only those
\* in range are kept.
C6_ThresholdGatedPlan ==
    (Counted /\ q.variant = "VectorIndex") =>
        LET inRange == InRangeIds(q.Smin, q.Smax)
            S == Cardinality(inRange)
        IN  /\ (0 < S /\ S < q.O) =>
                  /\ q.plan = "scan"
                  /\ q.asked = 0 /\ q.cands = {}
                  /\ ClosestOf(q.result, inRange, Min(Max(q.k, 0), S))
            /\ (S >= q.O) =>
                  /\ q.plan = "ann"
                  /\ q.asked = q.O
                  /\ SeqToSet(q.result) \subseteq q.cands \cap inRange

C8_TiesBrokenById ==
    q.plan \in {"scan", "ann"} =>
        /\ \A i, j \in DOMAIN q.result :
              (i < j /\ Dist(q.result[i]) = Dist(q.result[j]))
                  => q.result[i] < q.result[j]
        /\ \A x \in Pool \ SeqToSet(q.result), i \in DOMAIN q.result :
              Dist(x) = Dist(q.result[i]) => q.result[i] < x

\* C17: insert(vec, s) fails when vec is empty, and fails when the index holds
\* records and the length of vec differs from the dimension; in both failures
\* the records, the tree, the oracle and the dimension are left as they were.
C17_FailedInsertChangesNothing ==
    [][\A vec \in Vecs, s \in Scalars :
          (IndexInsert(vec, s)
             /\ (vec = <<>> \/ (dataVectors # <<>> /\ Len(vec) # dimension)))
          => /\ ret' # "ok"
             /\ UNCHANGED <<dataVectors, sValues, dimension, hnswIndex,
                            root, heap, live>>]_vars

\* An insert of a vector of the wrong length was refused by an index that
\* holds records.
C17_Witness ==
    /\ ret = "All vectors must have the same dimension"
    /\ Len(dataVectors) >= 2
    /\ \A i \in DOMAIN dataVectors : Len(dataVectors[i]) = dimension

\* The (scalar, id) pairs the tree holds, with their multiplicity.
TreePairs ==
    LET leaves == LeavesInOrder(heap, root)
    IN  Flatten([i \in DOMAIN leaves |->
            Flatten([j \in DOMAIN heap[leaves[i]].keys |->
                [x \in DOMAIN heap[leaves[i]].values[j] |->
                    <<heap[leaves[i]].keys[j], heap[leaves[i]].values[j][x]>>]])])

IsPrefix(a, b) == Len(a) <= Len(b) /\ SubSeq(b, 1, Len(a)) = a

\* C18: the ids handed out are 0..M-1 in insertion order: the vectors and the
\* scalars have the same length M, the oracle and the tree hold each id
\* 0..M-1 once (the tree under that record's scalar), and a step only ever
\* appends to the two sequences.
C18_IdsAppendOnly ==
    /\ [](/\ Len(dataVectors) = Len(sValues)
          /\ hnswIndex.labels = RecordIds
          /\ Len(TreePairs) = Len(sValues)
          /\ SeqToSet(TreePairs) = {<<sValues[i + 1], i>> : i \in RecordIds})
    /\ [][IsPrefix(dataVectors, dataVectors') /\ IsPrefix(sValues, sValues')]_vars

\* Three records were inserted, two of them under the same scalar.
C18_Witness ==
    /\ Len(dataVectors) = MaxRecords
    /\ ret = "ok"
    /\ \E i, j \in DOMAIN sValues : i # j /\ sValues[i] = sValues[j]

\* A query was made on the index as it stands.
Queried == q.plan # "none"

C20_MismatchFailsFirst ==
    [][(q' # q /\ q'.plan # "none" /\ dataVectors # <<>> /\ Len(q'.v) # dimension)
          => /\ q'.plan = "invalid_argument"
             /\ q'.count = 0 /\ q'.asked = 0 /\ q'.cands = {} /\ q'.result = <<>>
             /\ q'.variant = "ProbabilisticVectorIndex" => q'.O = 0
             /\ UNCHANGED <<dataVectors, sValues, dimension, hnswIndex,
                            root, heap, live>>]_vars

\* A query of the wrong length was refused by an index holding records in
\* the queried range.
C20_Witness ==
    /\ q.plan = "invalid_argument"
    /\ Len(q.v) # dimension
    /\ InRangeIds(q.Smin, q.Smax) # {}
    /\ countInRange(heap, root, q.Smin, q.Smax) > 0

C21_WitnessLargeEffort ==
    /\ q.variant = "ProbabilisticVectorIndex"
    /\ q.plan = "ann"
    /\ hnswIndex.ef > hnswEfSearch

\* P[Binomial(n, p) = j] with p = S / M, times M^n, by conditioning on the
\* last of the n trials.
RECURSIVE Exactly(_, _, _, _)
Exactly(n, j, S, M) ==
    IF j < 0 \/ j > n THEN 0
    ELSE IF n = 0 THEN 1
    ELSE S * Exactly(n - 1, j - 1, S, M) + (M - S) * Exactly(n - 1, j, S, M)

RECURSIVE FewerThan(_, _, _, _)
FewerThan(n, k, S, M) ==
    IF k <= 0 THEN 0 ELSE Exactly(n, k - 1, S, M) + FewerThan(n, k - 1, S, M)

\* P[Binomial(O, S / M) < k] <= alpha for the call held in `chooser`.
Suffices(O) ==
    FewerThan(O, chooser.k, chooser.S, chooser.M) * chooser.alpha[2]
        <= chooser.alpha[1] * Pow(chooser.M, O)

MainCase ==
    /\ 1 <= chooser.k /\ chooser.k <= chooser.M
    /\ 0 < chooser.S /\ chooser.S < chooser.M
    /\ chooser.alpha[1] > 0

\* C22: in the main case (1 <= k <= M, 0 < S < M, alpha > 0, p = S / M) the
\* binary search returns the smallest O in [k, M] with
\* P[Binomial(O, p) < k] <= alpha: the predicate holds at O and fails at every
\* O' with k <= O' < O; if no O in [k, M] satisfies it the result is M.
C22_SmallestSufficientO ==
    (chooser.fn = "computeRequiredO_BinarySearch" /\ MainCase) =>
        IF \E O \in chooser.k..chooser.M : Suffices(O)
        THEN /\ chooser.O \in chooser.k..chooser.M
             /\ Suffices(chooser.O)
             /\ \A O \in chooser.k..(chooser.O - 1) : ~Suffices(O)
        ELSE chooser.O = chooser.M

\* A main-case call whose answer lies strictly inside [k, M]: smaller sizes
\* fail the predicate, the answer meets alpha exactly.
C22_Witness ==
    /\ chooser.fn = "computeRequiredO_BinarySearch" /\ MainCase
    /\ chooser.k < chooser.O /\ chooser.O < chooser.M
    /\ FewerThan(chooser.O, chooser.k, chooser.S, chooser.M) * chooser.alpha[2]
           = chooser.alpha[1] * Pow(chooser.M, chooser.O)

\* A main-case call in which no size up to M suffices.
C22_WitnessNone ==
    /\ chooser.fn = "computeRequiredO_BinarySearch" /\ MainCase
    /\ \A O \in chooser.k..chooser.M : ~Suffices(O)

NoTree == status = "invalid_argument" /\ root = NULL /\ live = {}

\* The tree is one empty leaf, and every query on it finds nothing.
EmptyLeafTree ==
    /\ status = "ok"
    /\ root # NULL /\ live = {root}
    /\ heap[root].isLeaf /\ heap[root].keys = <<>> /\ heap[root].values = <<>>
    /\ heap[root].subtree_size = 0
    /\ \A key \in Keys :
          /\ search(heap, root, key) = ValueTypeDefault
          /\ searchAll(heap, root, key) = Absent
          /\ countLessOrEqual(heap, root, key) = 0
    /\ \A Smin, Smax \in Keys : rangeQuery(heap, root, Smin, Smax) = <<>>

\* C24: constructing a tree with order m < 3 fails with an invalid-argument
\* error and yields no usable tree, then or later; constructing with m >= 3
\* yields a tree whose root is a single empty leaf with subtree_size 0, on
\* which search and searchAll report absence, rangeQuery returns nothing and
\* countLessOrEqual returns 0.
C24_Construction ==
    /\ IF order < 3 THEN NoTree ELSE EmptyLeafTree
    /\ [](order < 3 => NoTree)

\* A construction with order 2, refused.
C24_Witness == order = 2 /\ status = "invalid_argument"

\* The record ids stored under key; the least is the first inserted.
IdsUnder(key) == {idx \in RecordIds : sOfIndex(idx) = key}

\* C25: search(K) returns the first id inserted under K when K is present and
\* the 'none' outcome when K is absent, and the 'none' outcome is
\* distinguishable from every id that can be stored, record id 0 included: no
\* present key is answered as an absent key is.
C25_SearchFirstOrNone ==
    \A K \in Keys :
        IF IdsUnder(K) # {}
        THEN /\ search(heap, root, K) = SetMin(IdsUnder(K))
             /\ \A absent \in Keys :
                   IdsUnder(absent) = {} =>
                       search(heap, root, absent) # search(heap, root, K)
        ELSE search(heap, root, K) = ValueTypeDefault

\* The value std_map holds under key, ValueType() when it holds none.
MapValue(key) ==
    IF ref[key] = <<>> THEN ValueTypeDefault ELSE ref[key][Len(ref[key])]

\* How many entries the leaves hold under key.
Entries(key) ==
    LET leaves == LeavesInOrder(heap, root)
    IN  SumLens([i \in DOMAIN leaves |->
                   SelectSeq(heap[leaves[i]].keys, LAMBDA x : x = key)])

Shape == [n \in live |-> [keys |-> heap[n].keys, children |-> heap[n].children,
                          next |-> heap[n].next]]

\* C26: in the single-value tree of BPlusTree2.h, for every order >= 3, after
\* every insert search(key) returns the value most recently inserted under
\* key, as the reference map with overwrite does; a repeated key never adds a
\* second entry and never triggers a split.
C26_SingleValueOverwrite ==
    /\ [](status = "ok" =>
            \A key \in Keys :
                /\ search2(heap, root, key) = MapValue(key)
                /\ Entries(key) = IF ref[key] = <<>> THEN 0 ELSE 1)
    /\ [][\A key \in Keys :
             (ref[key] # <<>> /\ ref'[key] # ref[key]) =>
                 /\ root' = root /\ live' = live
                 /\ Shape' = Shape]_vars

\* A key whose value was overwritten with a different one, in a tree that has
\* split down to three levels.
C26_Witness ==
    /\ kind = "BPlusTree2"
    /\ Height(heap, root) = 3
    /\ \E key \in Keys :
          /\ Len(ref[key]) = 2 /\ ref[key][1] # ref[key][2]
          /\ search2(heap, root, key) = ref[key][2]

\* Removes have deleted every key: the root leaf lost its last key.
Emptied == status = "ok" /\ root = NULL

\* C27: the tree stays usable after it has been emptied: search, searchAll,
\* rangeQuery and countLessOrEqual on the emptied tree return absent / empty /
\* 0 rather than faulting, and a following insert(K, V) completes normally,
\* after which searchAll(K) returns [V].
C27_UsableAfterEmptied ==
    /\ [](Emptied =>
            /\ \A key \in Keys :
                  /\ search(heap, root, key) = ValueTypeDefault
                  /\ searchAll(heap, root, key) = Absent
                  /\ countLessOrEqual(heap, root, key) = 0
            /\ \A Smin, Smax \in Keys : rangeQuery(heap, root, Smin, Smax) = <<>>)
    /\ [][(Emptied /\ status' # "destroyed") =>
             /\ status' = "ok"
             /\ \A key \in Keys :
                   ref'[key] # ref[key] =>
                       searchAll(heap', root', key) = Some(ref'[key])]_vars

\* The (key, id-list) pairs read off the leaves, left to right.
LeafEntries ==
    LET leaves == LeavesInOrder(heap, root)
    IN  Flatten([i \in DOMAIN leaves |->
            [j \in DOMAIN heap[leaves[i]].keys |->
                <<heap[leaves[i]].keys[j], heap[leaves[i]].values[j]>>]])

\* The entries of the abstract multimap from key `from` on, ascending.
RECURSIVE MapEntriesFrom(_)
MapEntriesFrom(from) ==
    IF from > MaxKey THEN <<>>
    ELSE (IF ref[from] = <<>> THEN <<>> ELSE <<<<from, ref[from]>>>>)
             \o MapEntriesFrom(from + 1)

\* C28: the tree refines an ordered multimap in which insert(K, V) appends V
\* to K's sequence and remove(K) deletes K: every operation completes, and
\* after it the (key, id-list) pairs read off the leaves left to right are the
\* map's entries in ascending key order; no pair is lost, duplicated or
\* reordered, and remove(K) leaves every other key's id-list as it was.
C28_RefinesMultimap ==
    /\ status # "crashed"
    /\ ~Dangling
    /\ LeafEntries = MapEntriesFrom(1)

\* The nodes d levels below n, left to right.
RECURSIVE NodesAtDepth(_, _, _)
NodesAtDepth(h, n, d) ==
    IF n = NULL THEN <<>>
    ELSE IF d = 0 THEN <<n>>
    ELSE IF h[n].isLeaf THEN <<>>
    ELSE Flatten([i \in DOMAIN h[n].children |->
                    NodesAtDepth(h, h[n].children[i], d - 1)])

\* The key counts of the nodes `up` levels above the leaves, left to right.
RowSizes(h, rt, up) ==
    LET d == Height(h, rt) - 1 - up
        row == IF d < 0 THEN <<>> ELSE NodesAtDepth(h, rt, d)
    IN  [i \in DOMAIN row |-> Len(h[row[i]].keys)]

\* Row `after` is row `before` with one full node replaced by two nodes of
\* `left` and `right` keys.
SplitInRow(before, after, left, right) ==
    \E i \in DOMAIN before :
        /\ before[i] = order - 1
        /\ after = SubSeq(before, 1, i - 1) \o <<left, right>>
                       \o SubSeq(before, i + 1, Len(before))

IntegerKeys == {x \in 0..(MaxKey + Scale) : x % Scale = 0}

C30_WitnessIntegerCount ==
    /\ kind \in IndexKinds /\ status = "ok"
    /\ Len(dataVectors) = 3
    /\ \A idx \in RecordIds : sOfIndex(idx) \in IntegerKeys
    /\ \E Smin, Smax \in IntegerKeys :
          Smin <= Smax /\ countInRange(heap, root, Smin, Smax) = 3

\* ------------------------------------------------- leaf underflow (C31)
\* The leaf a remove of `key` descends to, the parent that holds it, and the
\* leaf's 1-based place among the parent's children.
LeafOf(key) == FindLeaf(heap, root, key)

ParentOf(n) ==
    CHOOSE p \in Reach(heap, root) :
        ~heap[p].isLeaf /\ n \in SeqToSet(heap[p].children)

PlaceOf(n) ==
    LET cs == heap[ParentOf(n)].children
    IN  CHOOSE j \in DOMAIN cs : cs[j] = n

PlaceOfKey(key) ==
    LET ks == heap[LeafOf(key)].keys
    IN  CHOOSE j \in DOMAIN ks : ks[j] = key

\* Removing `key` now leaves a non-root leaf with fewer than floor((m-1)/2)
\* keys.
Underflows(key) ==
    /\ status = "ok"
    /\ root # NULL
    /\ ~Dangling
    /\ LeafOf(key) # root
    /\ key \in SeqToSet(heap[LeafOf(key)].keys)
    /\ Len(heap[LeafOf(key)].keys) - 1 < (order - 1) \div 2

\* `left` and `right` are neighbours under `parent`, `right` at 1-based place
\* j; lks/lvs and rks/rvs are their entries when the merge starts.
MergedAsClaimed(after, parent, left, right, j, lks, lvs, rks, rvs) ==
    /\ after.heap[left].keys = lks \o rks
    /\ after.heap[left].values = lvs \o rvs
    /\ after.heap[left].next = heap[right].next
    /\ after.heap[parent].keys = RemoveAt(heap[parent].keys, j - 1)
    /\ after.heap[parent].children = RemoveAt(heap[parent].children, j)
    /\ Len(after.heap[left].keys) <= order - 1

RepairedAsClaimed(key) ==
    LET leaf == LeafOf(key)
        parent == ParentOf(leaf)
        cs == heap[parent].children
        j == PlaceOf(leaf)
        ks == RemoveAt(heap[leaf].keys, PlaceOfKey(key))
        vs == RemoveAt(heap[leaf].values, PlaceOfKey(key))
        minKeys == (order - 1) \div 2
        after == remove(Tree, key)
        lends(n) == Len(heap[n].keys) > minKeys
    IN  IF j > 1 /\ lends(cs[j - 1])
        THEN LET l == heap[cs[j - 1]]
             IN  /\ after.heap[leaf].keys = <<l.keys[Len(l.keys)]>> \o ks
                 /\ after.heap[leaf].values = <<l.values[Len(l.values)]>> \o vs
                 /\ after.heap[cs[j - 1]].keys = Front(l.keys)
                 /\ after.heap[cs[j - 1]].values = Front(l.values)
                 /\ after.heap[parent].keys =
                       [heap[parent].keys EXCEPT ![j - 1] = l.keys[Len(l.keys)]]
                 /\ after.heap[parent].children = cs
        ELSE IF j < Len(cs) /\ lends(cs[j + 1])
        THEN LET r == heap[cs[j + 1]]
             IN  /\ after.heap[leaf].keys = Append(ks, r.keys[1])
                 /\ after.heap[leaf].values = Append(vs, r.values[1])
                 /\ after.heap[cs[j + 1]].keys = Tail(r.keys)
                 /\ after.heap[cs[j + 1]].values = Tail(r.values)
                 /\ after.heap[parent].keys =
                       [heap[parent].keys EXCEPT ![j] = r.keys[2]]
                 /\ after.heap[parent].children = cs
        ELSE IF j > 1
        THEN MergedAsClaimed(after, parent, cs[j - 1], leaf, j,
                             heap[cs[j - 1]].keys, heap[cs[j - 1]].values, ks, vs)
        ELSE /\ j < Len(cs)
             /\ MergedAsClaimed(after, parent, leaf, cs[j + 1], j + 1,
                                ks, vs, heap[cs[j + 1]].keys,
                                heap[cs[j + 1]].values)

\* C31: whenever a remove leaves a non-root leaf with fewer than
\* floor((m-1)/2) keys, the leaf is repaired within its parent by the first
\* of these that applies: borrow the left sibling's last entry, borrow the
\* right sibling's first entry (a sibling lends only if it holds more than
\* floor((m-1)/2) keys, and the separator between the two becomes the first
\* key of the right one), merge into the left sibling, merge the right
\* sibling into the leaf.  A merge concatenates right onto left, hands over
\* the forward pointer, takes one separator and one child out of the parent
\* and leaves at most m-1 keys.
C31_UnderflowRepair ==
    [][\A key \in Keys :
          (Underflows(key) /\ ref'[key] = <<>> /\ status' = "ok"
              /\ <<root, heap>>' # <<root, heap>>)
              => RepairedAsClaimed(key)]_vars

\* The same, for a leaf that has a sibling to borrow from or merge with.
C31_RepairAmongSiblings ==
    [][\A key \in Keys :
          (Underflows(key) /\ ref'[key] = <<>> /\ status' = "ok"
              /\ <<root, heap>>' # <<root, heap>>
              /\ Len(heap[ParentOf(LeafOf(key))].children) > 1)
              => RepairedAsClaimed(key)]_vars

\* ------------------------------------------------------ leaf split (C32)
\* The step inserts `value` under `key` into a tree that is there to take it.
Inserts(key, value) ==
    /\ status = "ok" /\ status' = "ok"
    /\ root # NULL /\ ~Dangling
    /\ ref' = [ref EXCEPT ![key] = Append(@, value)]

HoldsKey(key) == key \in SeqToSet(heap[LeafOf(key)].keys)

\* The leaf's keys and id-lists with the new key put in its place.
WithKey(key) ==
    LET ks == heap[LeafOf(key)].keys
    IN  SubSeq(ks, 1, Cardinality({i \in DOMAIN ks : ks[i] < key}))
            \o <<key>>
            \o SubSeq(ks, Cardinality({i \in DOMAIN ks : ks[i] < key}) + 1, Len(ks))

WithValue(key, value) ==
    LET ks == heap[LeafOf(key)].keys
        vs == heap[LeafOf(key)].values
    IN  SubSeq(vs, 1, Cardinality({i \in DOMAIN ks : ks[i] < key}))
            \o <<<<value>>>>
            \o SubSeq(vs, Cardinality({i \in DOMAIN ks : ks[i] < key}) + 1, Len(vs))

\* Leaves the insert created.
NewLeaves(after) == {n \in after.live \ live : after.heap[n].isLeaf}

CeilHalf(m) == m - m \div 2

\* Where the separator of the two halves is after the insert: between them in
\* their parent, or, when the parent was split between them, in a node above.
SeparatedBy(after, left, right, sep) ==
    \/ \E p \in Reach(after.heap, after.root) :
          /\ ~after.heap[p].isLeaf
          /\ \E j \in DOMAIN after.heap[p].keys :
                /\ after.heap[p].keys[j] = sep
                /\ after.heap[p].children[j] = left
                /\ after.heap[p].children[j + 1] = right
    \/ \E p, pl, pr \in Reach(after.heap, after.root) :
          /\ ~after.heap[p].isLeaf /\ ~after.heap[pl].isLeaf /\ ~after.heap[pr].isLeaf
          /\ sep \in SeqToSet(after.heap[p].keys)
          /\ pr \in after.live \ live
          /\ after.heap[pl].children[Len(after.heap[pl].children)] = left
          /\ after.heap[pr].children[1] = right

LeafSplitAsClaimed(key, value) ==
    LET leaf == LeafOf(key)
        nd == heap[leaf]
        after == insert(Tree, key, value)
        full == WithKey(key)
        vals == WithValue(key, value)
        fills == ~HoldsKey(key) /\ Len(nd.keys) + 1 = order
    IN  /\ fills <=> NewLeaves(after) # {}
        /\ fills <=> after.heap[leaf].keys # (IF HoldsKey(key) THEN nd.keys ELSE full)
        /\ fills =>
              \E newLeaf \in NewLeaves(after) :
                  /\ NewLeaves(after) = {newLeaf}
                  /\ after.heap[leaf].keys = SubSeq(full, 1, CeilHalf(order))
                  /\ after.heap[leaf].values = SubSeq(vals, 1, CeilHalf(order))
                  /\ after.heap[newLeaf].keys
                        = SubSeq(full, CeilHalf(order) + 1, order)
                  /\ after.heap[newLeaf].values
                        = SubSeq(vals, CeilHalf(order) + 1, order)
                  /\ Len(after.heap[newLeaf].keys) = order \div 2
                  /\ after.heap[leaf].next = newLeaf
                  /\ after.heap[newLeaf].next = nd.next
                  /\ SeparatedBy(after, leaf, newLeaf, full[CeilHalf(order) + 1])
                  /\ leaf = root =>
                        /\ after.root \in after.live \ live
                        /\ ~after.heap[after.root].isLeaf
                        /\ after.heap[after.root].keys
                              = <<full[CeilHalf(order) + 1]>>
                        /\ after.heap[after.root].children = <<leaf, newLeaf>>

C32_WitnessBelowRoot ==
    /\ status = "ok" /\ kind = "none" /\ order = 4 /\ released = {}
    /\ root # NULL /\ ~heap[root].isLeaf
    /\ Len(heap[root].keys) = 2
    /\ \A j \in 1..3 : heap[heap[root].children[j]].isLeaf
    /\ \A j \in 1..2 :
          /\ heap[heap[root].children[j]].next = heap[root].children[j + 1]
          /\ heap[root].keys[j] = heap[heap[root].children[j + 1]].keys[1]

\* -------------------------------------------------- internal split (C33)
\* An ascending sequence with one more key put in its place.
PutIn(ks, k) ==
    SubSeq(ks, 1, Cardinality({i \in DOMAIN ks : ks[i] <= k}))
        \o <<k>>
        \o SubSeq(ks, Cardinality({i \in DOMAIN ks : ks[i] <= k}) + 1, Len(ks))

\* What the insert of `key` brings to the i-th node of the descent `path`:
\* whether the node is split, the keys it holds when it overflows, and the
\* key it then sends up.
RECURSIVE Overflow(_, _, _)
Overflow(path, i, key) ==
    IF i = Len(path)
    THEN [splits |-> ~HoldsKey(key) /\ Len(heap[path[i]].keys) + 1 = order,
          full |-> WithKey(key),
          up |-> IF HoldsKey(key) \/ Len(heap[path[i]].keys) + 1 < order
                 THEN 0 ELSE WithKey(key)[CeilHalf(order) + 1]]
    ELSE LET below == Overflow(path, i + 1, key)
             full == PutIn(heap[path[i]].keys, below.up)
         IN  IF ~below.splits
             THEN [splits |-> FALSE, full |-> heap[path[i]].keys, up |-> 0]
             ELSE [splits |-> Len(full) = order,
                   full |-> full,
                   up |-> IF Len(full) = order THEN full[order \div 2 + 1] ELSE 0]

\* Internal nodes the insert created that took children of n.
Partners(after, n) ==
    {x \in Reach(after.heap, after.root) \ Reach(heap, root) :
        /\ ~after.heap[x].isLeaf
        /\ SeqToSet(after.heap[x].children) \cap SeqToSet(heap[n].children) # {}}

InternalSplitAsClaimed(key, value) ==
    LET path == PathFrom(heap, root, key)
        after == insert(Tree, key, value)
        mid == order \div 2
    IN  \A i \in 1..(Len(path) - 1) :
            LET n == path[i]
                o == Overflow(path, i, key)
            IN  /\ o.splits <=> Partners(after, n) # {}
                /\ o.splits =>
                      \E newInternal \in Partners(after, n) :
                          LET a == after.heap[n]
                              b == after.heap[newInternal]
                              cs == a.children \o b.children
                          IN  /\ Partners(after, n) = {newInternal}
                              /\ a.keys = SubSeq(o.full, 1, mid)
                              /\ b.keys = SubSeq(o.full, mid + 2, order)
                              /\ Len(a.children) = mid + 1
                              /\ Len(b.children) = order - mid
                              /\ \A x, y \in DOMAIN cs : x # y => cs[x] # cs[y]
                              /\ SelectSeq(cs, LAMBDA c : c \in Reach(heap, root))
                                    = heap[n].children
                              /\ Cardinality(SeqToSet(cs) \ Reach(heap, root)) = 1
                              /\ o.up \notin SeqToSet(a.keys) \cup SeqToSet(b.keys)
                              /\ \E p \in Reach(after.heap, after.root) \ {n, newInternal} :
                                    /\ ~after.heap[p].isLeaf
                                    /\ o.up \in SeqToSet(after.heap[p].keys)
                                    /\ \/ n \in SeqToSet(after.heap[p].children)
                                          /\ n = root =>
                                                /\ p = after.root
                                                /\ after.heap[p].keys = <<o.up>>
                                                /\ after.heap[p].children
                                                      = <<n, newInternal>>
                                       \/ n # root

SameShape ==
    /\ root' = root
    /\ live' = live
    /\ \A n \in NodeIds :
          /\ heap'[n].isLeaf = heap[n].isLeaf
          /\ heap'[n].keys = heap[n].keys
          /\ heap'[n].children = heap[n].children
          /\ heap'[n].next = heap[n].next

\* Only the id-list of `key` changed: `value` was appended at its end.
OnlyAppended(key, value) ==
    \A n \in NodeIds :
        heap'[n].values =
            IF n = LeafOf(key)
            THEN [heap[n].values EXCEPT ![PlaceOfKey(key)] = Append(@, value)]
            ELSE heap[n].values

\* The nodes from the root down to the leaf of `key` count one more, the
\* others what they counted.
PathGrewByOne(key) ==
    \A n \in NodeIds :
        heap'[n].subtree_size =
            IF n \in SeqToSet(PathFrom(heap, root, key))
            THEN heap[n].subtree_size + 1
            ELSE heap[n].subtree_size

\* C34: an insert under a key that is already in the tree appends the id to
\* that key's id-list and adds exactly 1 to the subtree_size of every node
\* from the root to the leaf; no key sequence, separator, child list or
\* forward pointer changes, no node is created and nothing is split.
C34_RepeatedKeyFrame ==
    [][\A key \in Keys : \A value \in Vals :
          (Inserts(key, value) /\ HoldsKey(key))
              => SameShape /\ OnlyAppended(key, value) /\ PathGrewByOne(key)]_vars

\* The same without the sizes.
C34_ShapeAndListOnly ==
    [][\A key \in Keys : \A value \in Vals :
          (Inserts(key, value) /\ HoldsKey(key))
              => SameShape /\ OnlyAppended(key, value)]_vars

\* ------------------------------------------- countInRange's sign (C35)
\* Range bounds from below every stored scalar to above every one.
AnyBounds == 0..(MaxKey + Scale)

\* C35: countInRange(Smin, Smax) is never negative, whatever Smin and Smax
\* are, Smin > Smax included.
C35_CountNeverNegative ==
    (kind \in IndexKinds /\ status = "ok") =>
        \A Smin, Smax \in AnyBounds : countInRange(heap, root, Smin, Smax) >= 0

\* The same for ranges that are not empty by their bounds.
C35_CountOfProperRange ==
    (kind \in IndexKinds /\ status = "ok") =>
        \A Smin, Smax \in AnyBounds :
            Smin <= Smax => countInRange(heap, root, Smin, Smax) >= 0

\* ---------------------------------- the chooser's value against k (C36)
\* A chooser was called with k >= 1, M >= 1 and alpha > 0; its value before
\* the safety margin.
ChoseFor ==
    /\ chooser.fn \in {"computeRequiredO_BinarySearch", "computeRequiredO_Enhanced"}
    /\ chooser.k >= 1
    /\ chooser.M >= 1
    /\ chooser.alpha[1] > 0

BeforeMargin ==
    IF chooser.fn = "computeRequiredO_Enhanced"
    THEN chooser.O - SafetyMargin
    ELSE chooser.O

Smaller(a, b) == IF a < b THEN a ELSE b

Larger(a, b) == IF a > b THEN a ELSE b

\* C36 as stated: for k >= 1, M >= 1, any S and alpha > 0 the candidate
\* count before the margin is at least k and at most max(k, M), also when
\* k > M.
C36_AtLeastK ==
    ChoseFor =>
        /\ BeforeMargin >= chooser.k
        /\ BeforeMargin <= Larger(chooser.k, chooser.M)

\* C36 amended: the candidate count before the margin is at least min(k, M)
\* and at most max(k, M); it is at least k whenever k <= M, and it is M,
\* which is less than k, when k > M and 0 < S < M.
C36_BetweenMinAndMax ==
    ChoseFor =>
        /\ BeforeMargin >= Smaller(chooser.k, chooser.M)
        /\ BeforeMargin <= Larger(chooser.k, chooser.M)
        /\ chooser.k <= chooser.M => BeforeMargin >= chooser.k
        /\ (chooser.k > chooser.M /\ 0 < chooser.S /\ chooser.S < chooser.M)
              => BeforeMargin = chooser.M
        /\ (chooser.S <= 0 \/ chooser.S >= chooser.M) => BeforeMargin = chooser.k

\* More neighbours asked for than records stored, some but not all of them in
\* range: the chooser answered M.
C36_Witness ==
    /\ ChoseFor
    /\ chooser.fn = "computeRequiredO_BinarySearch"
    /\ chooser.k > chooser.M
    /\ 0 < chooser.S /\ chooser.S < chooser.M
    /\ chooser.O = chooser.M
    /\ chooser.probes = <<>>

\* k within the record count and a search that ran: the answer is from k..M.
C36_WitnessSearched ==
    /\ ChoseFor
    /\ chooser.k < chooser.M
    /\ chooser.probes # <<>>
    /\ BeforeMargin > chooser.k
    /\ BeforeMargin < chooser.M

\* ------------------------------------- an insert the oracle refuses (C37)
\* The ids the tree holds, whatever their keys.
TreeIds == {TreePairs[i][2] : i \in DOMAIN TreePairs}

\* C37: when addPoint fails in an index insert, the record store, the tree
\* and the oracle still hold the same ids afterwards.
C37_FailedInsertKeepsAgreement ==
    (kind \in IndexKinds /\ status = "ok" /\ ret = AddPointError) =>
        /\ TreeIds = RecordIds
        /\ hnswIndex.labels = RecordIds

\* What the failed insert leaves: the record is in the store and in the
\* tree, and the oracle does not have it.
C37_FailedInsertLeavesRecord ==
    (kind \in IndexKinds /\ status = "ok" /\ ret = AddPointError) =>
        /\ TreeIds = RecordIds
        /\ Len(dataVectors) - 1 \in RecordIds \ hnswIndex.labels

\* While addPoint succeeds the three hold the same ids.
C37_AgreementWhileRoom ==
    (kind \in IndexKinds /\ status = "ok" /\ ret = "ok") =>
        (hnswIndex.labels = RecordIds) = (Len(dataVectors) <= maxElements)

\* ----------------------------- insert and remove followed loop by loop
\* Each action below is one pass of a loop or one level of the recursion of
\* insert or remove; `op` says where the operation stands.  pc is the code
\* about to run, node the node it runs on, key and child the separator and
\* the new node on their way into node, todo the nodes from which later
\* calls of updateSubtreeSizesUpwards start.
Busy == op.pc # "idle"

At(pc, node) == [op EXCEPT !.pc = pc, !.node = node]

\* The tree as the code has it in the middle of an operation.
Keep(t) ==
    \E now \in {t} :
        /\ root' = now.root
        /\ heap' = now.heap
        /\ live' = now.live
        /\ released' = now.released
        /\ dfree' = now.dfree
        /\ scribbled' = scribbled

\* The operation returns to its caller.
Return(t) ==
    \E now \in {t} :
        \E settled \in {Settle(now)} :
            /\ Outcome(settled)
            /\ op' = Idle

\* insert up to its test for overflow.
StartInsert(key, value) ==
    /\ ~Busy
    /\ status = "ok"
    /\ key \in workload.keys
    /\ value \in workload.vals
    /\ Len(ref[key]) < MaxIds
    /\ SumLens(ref) < MaxPairs
    /\ IF root = NULL \/ root \in scribbled
       THEN Crash
       ELSE LET leaf == FindLeaf(heap, root, key)
                nd == heap[leaf]
                index == LowerBound(nd.keys, key)
                present == index < Len(nd.keys) /\ nd.keys[index + 1] = key
                h1 == IF present
                      THEN [heap EXCEPT ![leaf].values[index + 1] = Append(@, value)]
                      ELSE [heap EXCEPT
                              ![leaf].keys = InsertAt(nd.keys, index + 1, key),
                              ![leaf].values =
                                  InsertAt(nd.values, index + 1, <<value>>)]
                started == [Idle EXCEPT
                              !.expect = Settle(insert(Tree, key, value))]
            IN  /\ HasRoom
                /\ Keep([Tree EXCEPT !.heap = h1])
                /\ op' = IF Len(h1[leaf].keys) >= order
                         THEN [started EXCEPT !.pc = "splitLeaf", !.node = leaf]
                         ELSE [started EXCEPT !.pc = "refresh", !.node = leaf]
                /\ ref' = [ref EXCEPT ![key] = Append(@, value)]
                /\ UNCHANGED <<order, status, workload, chooser, indexVars>>

\* splitLeaf up to its call of insertInternal or of updateSubtreeSizesUpwards.
StepSplitLeaf ==
    /\ op.pc = "splitLeaf"
    /\ LET leaf == op.node
           t == Tree
           mid == (order + 1) \div 2
           newLeaf == NewNode(t)
           t1 == Allocate(t, newLeaf, TRUE)
           nd == t.heap[leaf]
           h2 == [t1.heap EXCEPT
                    ![newLeaf].next = nd.next,
                    ![leaf].next = newLeaf,
                    ![newLeaf].keys = SubSeq(nd.keys, mid + 1, Len(nd.keys)),
                    ![newLeaf].values = SubSeq(nd.values, mid + 1, Len(nd.values)),
                    ![leaf].keys = SubSeq(nd.keys, 1, mid),
                    ![leaf].values = SubSeq(nd.values, 1, mid)]
           newKey == h2[newLeaf].keys[1]
           h3 == updateSubtreeSize(updateSubtreeSize(h2, leaf), newLeaf)
           t3 == [t1 EXCEPT !.heap = h3]
       IN  IF leaf = t.root
           THEN LET newRoot == NewNode(t3)
                    t4 == Allocate(t3, newRoot, FALSE)
                    h5 == [t4.heap EXCEPT
                             ![newRoot].keys = <<newKey>>,
                             ![newRoot].children = <<leaf, newLeaf>>]
                IN  /\ Keep([t4 EXCEPT !.heap = updateSubtreeSize(h5, newRoot),
                                       !.root = newRoot])
                    /\ op' = At("refresh", newRoot)
           ELSE /\ Keep(t3)
                /\ op' = [op EXCEPT !.pc = "insertInternal",
                                    !.key = newKey,
                                    !.node = findParent(t3.heap, t3.root, leaf),
                                    !.child = newLeaf]
    /\ UNCHANGED <<order, status, ref, workload, chooser, indexVars>>

\* insertInternal up to its test for overflow.
StepInsertInternal ==
    /\ op.pc = "insertInternal"
    /\ LET current == op.node
           nd == heap[current]
           index == UpperBound(nd.keys, op.key)
           h1 == [heap EXCEPT
                    ![current].keys = InsertAt(nd.keys, index + 1, op.key),
                    ![current].children =
                        InsertAt(nd.children, index + 2, op.child)]
       IN  /\ Keep([Tree EXCEPT !.heap = h1])
           /\ op' = IF Len(h1[current].keys) >= order
                    THEN At("splitInternal", current)
                    ELSE At("refresh", current)
    /\ UNCHANGED <<order, status, ref, workload, chooser, indexVars>>

\* splitInternal up to its call of insertInternal or of
\* updateSubtreeSizesUpwards.
StepSplitInternal ==
    /\ op.pc = "splitInternal"
    /\ LET internal == op.node
           t == Tree
           nd == t.heap[internal]
           mid == Len(nd.keys) \div 2
           newInternal == NewNode(t)
           t1 == Allocate(t, newInternal, FALSE)
           upKey == nd.keys[mid + 1]
           h2 == [t1.heap EXCEPT
                    ![newInternal].keys = SubSeq(nd.keys, mid + 2, Len(nd.keys)),
                    ![newInternal].children =
                        SubSeq(nd.children, mid + 2, Len(nd.children)),
                    ![internal].keys = SubSeq(nd.keys, 1, mid),
                    ![internal].children = SubSeq(nd.children, 1, mid + 1)]
           h3 == updateSubtreeSize(updateSubtreeSize(h2, internal), newInternal)
           t3 == [t1 EXCEPT !.heap = h3]
       IN  IF internal = t.root
           THEN LET newRoot == NewNode(t3)
                    t4 == Allocate(t3, newRoot, FALSE)
                    h5 == [t4.heap EXCEPT
                             ![newRoot].keys = <<upKey>>,
                             ![newRoot].children = <<internal, newInternal>>]
                IN  /\ Keep([t4 EXCEPT !.heap = updateSubtreeSize(h5, newRoot),
                                       !.root = newRoot])
                    /\ op' = At("refresh", newRoot)
           ELSE /\ Keep(t3)
                /\ op' = [op EXCEPT !.pc = "insertInternal",
                                    !.key = upKey,
                                    !.node = findParent(t3.heap, t3.root, internal),
                                    !.child = newInternal]
    /\ UNCHANGED <<order, status, ref, workload, chooser, indexVars>>

\* The loop of updateSubtreeSizesUpwards going on below the root once it has
\* refreshed the root.
StepRefreshPastRoot ==
    /\ op.pc = "refresh"
    /\ LET h1 == updateSubtreeSize(heap, op.node)
           parent == findParent(h1, root, op.node)
           t1 == [Tree EXCEPT !.heap = h1]
       IN  IF parent # NULL
           THEN Keep(t1) /\ op' = [op EXCEPT !.node = parent]
           ELSE IF ~heap[op.node].isLeaf
           THEN Keep(t1) /\ op' = [op EXCEPT !.node = heap[op.node].children[1]]
           ELSE IF op.todo # <<>>
           THEN Keep(t1) /\ op' = [op EXCEPT !.node = Head(op.todo),
                                             !.todo = Tail(op.todo)]
           ELSE Return(t1)
    /\ UNCHANGED <<order, status, ref, workload, chooser, indexVars>>

\* One pass of the loop of updateSubtreeSizesUpwards; when the loop is over,
\* the next call of it that the operation makes, or the return.
StepRefresh ==
    /\ op.pc = "refresh"
    /\ LET h1 == updateSubtreeSize(heap, op.node)
           parent == findParent(h1, root, op.node)
           t1 == [Tree EXCEPT !.heap = h1]
       IN  IF parent # NULL
           THEN Keep(t1) /\ op' = [op EXCEPT !.node = parent]
           ELSE IF op.todo # <<>>
           THEN Keep(t1) /\ op' = [op EXCEPT !.node = Head(op.todo),
                                             !.todo = Tail(op.todo)]
           ELSE Return(t1)
    /\ UNCHANGED <<order, status, ref, workload, chooser, indexVars>>

\* borrowFromLeftLeaf, borrowFromRightLeaf and mergeLeaf up to their calls of
\* updateSubtreeSizesUpwards.
borrowFromLeftLeafMoves(t, leaf, leftSibling, parent, index) ==
    LET l == t.heap[leftSibling]
        h1 == [t.heap EXCEPT
                 ![leaf].keys = <<l.keys[Len(l.keys)]>> \o @,
                 ![leaf].values = <<l.values[Len(l.values)]>> \o @,
                 ![leftSibling].keys = Front(@),
                 ![leftSibling].values = Front(@)]
    IN  [t EXCEPT !.heap = [h1 EXCEPT ![parent].keys[index] = h1[leaf].keys[1]]]

borrowFromRightLeafMoves(t, leaf, rightSibling, parent, index) ==
    LET r == t.heap[rightSibling]
        h1 == [t.heap EXCEPT
                 ![leaf].keys = Append(@, r.keys[1]),
                 ![leaf].values = Append(@, r.values[1]),
                 ![rightSibling].keys = Tail(@),
                 ![rightSibling].values = Tail(@)]
    IN  [t EXCEPT !.heap =
            [h1 EXCEPT ![parent].keys[index + 1] = h1[rightSibling].keys[1]]]

mergeLeafMoves(t, left, right, parent, index) ==
    LET r == t.heap[right]
        h1 == [t.heap EXCEPT
                 ![left].keys = @ \o r.keys,
                 ![left].values = @ \o r.values,
                 ![left].next = r.next,
                 ![parent].keys = RemoveAt(@, index + 1),
                 ![parent].children = RemoveAt(@, index + 2)]
        t1 == DeleteNode([t EXCEPT !.heap = h1], right)
        h2 == updateSubtreeSize(updateSubtreeSize(t1.heap, left), parent)
        t2 == [t1 EXCEPT !.heap = h2]
    IN  IF parent = t2.root /\ h2[parent].keys = <<>>
        THEN DeleteNode([t2 EXCEPT !.root = left], parent)
        ELSE t2

\* remove up to its first call of updateSubtreeSizesUpwards: the key is
\* erased and an underfull leaf borrows or merges.  Borrow and merge refresh
\* the sizes upwards themselves and remove does it once more after them.
StartRemove(key) ==
    /\ ~Busy
    /\ status = "ok"
    /\ key \in workload.keys
    /\ IF root # NULL /\ root \in scribbled
       THEN Crash
       ELSE /\ ref' = [ref EXCEPT ![key] = <<>>]
            /\ UNCHANGED <<order, status, workload, chooser, indexVars>>
            /\ IF root = NULL
               THEN Return(Tree)
               ELSE LET path == PathFrom(heap, root, key)
                        leaf == path[Len(path)]
                        nd == heap[leaf]
                        index == LowerBound(nd.keys, key)
                        h1 == [heap EXCEPT
                                 ![leaf].keys = RemoveAt(@, index + 1),
                                 ![leaf].values = RemoveAt(@, index + 1)]
                        t1 == [Tree EXCEPT !.heap = h1]
                        minKeys == (order - 1) \div 2
                        parent == path[Len(path) - 1]
                        cs == heap[parent].children
                        indexInParent == SetMin({j \in DOMAIN cs : cs[j] = leaf}) - 1
                        hasLeft == indexInParent > 0
                        hasRight == indexInParent < Len(cs) - 1
                        leftSibling == cs[indexInParent]
                        rightSibling == cs[indexInParent + 2]
                        started == [Idle EXCEPT
                                      !.expect = Settle(remove(Tree, key)),
                                      !.pc = "refresh"]
                    IN  IF ~(index < Len(nd.keys) /\ nd.keys[index + 1] = key)
                        THEN Return(Tree)
                        ELSE IF leaf = root /\ h1[leaf].keys = <<>>
                        THEN Return([DeleteNode(t1, root) EXCEPT !.root = NULL])
                        ELSE IF ~(Len(h1[leaf].keys) < minKeys /\ leaf # root)
                        THEN Keep(t1) /\ op' = [started EXCEPT !.node = leaf]
                        ELSE IF hasLeft /\ Len(heap[leftSibling].keys) > minKeys
                        THEN /\ Keep(borrowFromLeftLeafMoves(
                                        t1, leaf, leftSibling, parent, indexInParent))
                             /\ op' = [started EXCEPT !.node = leaf,
                                                      !.todo = <<leaf>>]
                        ELSE IF hasRight /\ Len(heap[rightSibling].keys) > minKeys
                        THEN /\ Keep(borrowFromRightLeafMoves(
                                        t1, leaf, rightSibling, parent, indexInParent))
                             /\ op' = [started EXCEPT !.node = leaf,
                                                      !.todo = <<leaf>>]
                        ELSE IF hasLeft
                        THEN /\ Keep(mergeLeafMoves(t1, leftSibling, leaf, parent,
                                                    indexInParent - 1))
                             /\ op' = [started EXCEPT !.node = leftSibling,
                                                      !.todo = <<leftSibling>>]
                        ELSE IF hasRight
                        THEN /\ Keep(mergeLeafMoves(t1, leaf, rightSibling, parent,
                                                    indexInParent))
                             /\ op' = [started EXCEPT !.node = leaf,
                                                      !.todo = <<leaf>>]
                        ELSE Return(t1)

\* A tree whose operations are followed through their loops.
InitSteps == Init

Steps ==
    \/ StepSplitLeaf
    \/ StepInsertInternal
    \/ StepSplitInternal
    \/ StepRefresh

NextSteps ==
    \/ \E key \in Keys, value \in Vals : StartInsert(key, value)
    \/ \E key \in Keys : StartRemove(key)
    \/ StepSplitLeaf
    \/ StepInsertInternal
    \/ StepSplitInternal
    \/ StepRefresh

\* The code runs on one thread and waits for nothing, so an operation under
\* way takes its next step: weak fairness of Steps.  A step is possible
\* exactly while an operation is under way and every step moves `op`, so
\* ENABLED <<Steps>>_vars is Busy and WF_vars(Steps) is the formula below,
\* WF_ written out with Busy in the place of ENABLED.
StepsAreTaken == []<>(~Busy) \/ []<><<Steps>>_vars

SpecSteps == InitSteps /\ [][NextSteps]_vars /\ StepsAreTaken

\* --------------------------------------------------- termination (C38)
\* How far below the root a node is: 0 for the root, -1 for a node the tree
\* does not reach.
RECURSIVE DepthFrom(_, _, _)
DepthFrom(h, from, n) ==
    IF from = NULL THEN 0 - 1
    ELSE IF from = n THEN 0
    ELSE IF h[from].isLeaf THEN 0 - 1
    ELSE LET below == {DepthFrom(h, h[from].children[i], n) :
                          i \in DOMAIN h[from].children} \ {0 - 1}
         IN  IF below = {} THEN 0 - 1 ELSE 1 + SetMin(below)

DepthOf(n) == DepthFrom(heap, root, n)

Splitting == op.pc \in {"splitLeaf", "insertInternal", "splitInternal"}

\* What is left to do: the calls of updateSubtreeSizesUpwards still to come,
\* the levels above the node the operation is at, and within one level the
\* split that follows the insertion of the separator.  Splitting comes
\* before every refresh.
Measure ==
    (IF Splitting THEN 1000 ELSE 0)
        + 100 * Len(op.todo)
        + 10 * (DepthOf(op.node) + 1)
        + (IF op.pc = "insertInternal" THEN 1 ELSE 0)

\* Split propagation goes up one level with each separator it hands on and
\* ends with the refresh of the sizes, at the latest when it has made a new
\* root.
SplitsGoUp ==
    /\ (op.pc \in {"splitLeaf", "splitInternal"} /\ op.node # root)
          => /\ op'.pc = "insertInternal"
             /\ DepthOf(op.node) >= 1
             /\ DepthFrom(heap', root', op'.node) = DepthOf(op.node) - 1
    /\ (op.pc \in {"splitLeaf", "splitInternal"} /\ op.node = root)
          => /\ op'.pc = "refresh"
             /\ op'.node = root'
             /\ root' \notin live
    /\ op.pc = "insertInternal"
          => /\ op'.node = op.node
             /\ op'.pc \in {"splitInternal", "refresh"}

\* The refresh loop goes from a node to its parent and stops after the root.
RefreshGoesUp ==
    op.pc = "refresh" =>
        /\ DepthOf(op.node) >= 0
        /\ (op'.pc = "refresh" /\ op'.todo = op.todo)
              => /\ op.node # root
                 /\ DepthFrom(heap', root', op'.node) = DepthOf(op.node) - 1
        /\ (op'.pc = "idle" \/ op'.todo # op.todo) => op.node = root

\* The code the operation is at is there to run: one of the four steps, on
\* a node of the tree, with storage left for the nodes a split makes.
HasNextStep ==
    /\ op.pc \in {"splitLeaf", "insertInternal", "splitInternal", "refresh"}
    /\ op.node \in Reach(heap, root)
    /\ op.pc \in {"splitLeaf", "splitInternal"}
          => Cardinality(FreeIds(Tree)) >= 2
    /\ op.pc = "splitLeaf" => Len(heap[op.node].keys) >= order
    /\ op.pc = "splitInternal" => Len(heap[op.node].keys) >= order
    /\ op.pc = "insertInternal" => ~heap[op.node].isLeaf

\* What the operation leaves when it returns is what insert or remove
\* computes in one piece.
ReturnsTheResult ==
    (Busy /\ ~Busy' /\ scribbled' = {})
        => /\ root' = op.expect.root
           /\ heap' = op.expect.heap
           /\ live' = op.expect.live

C38_WitnessSplit ==
    /\ op.pc = "insertInternal"
    /\ op.node = root
    /\ Len(heap[root].keys) = order - 1
    /\ status = "ok"

\* A remove that merged two leaves and has one more refresh to come.
C38_WitnessRemove ==
    /\ op.pc = "refresh"
    /\ op.todo # <<>>
    /\ status = "ok"
    /\ released # {}

====
